---- MODULE Spec2Model ----
(***************************************************************************)
(* A model of sumpy/codegen.py: the passes that turn symbolic kernel       *)
(* expressions into loopy instructions (Bessel/Hankel recurrences, power,  *)
(* fraction and sign normalisation, vector components), and the driver     *)
(* to_loopy_insns that sequences them over a batch of assignments.         *)
(*                                                                         *)
(* Expression trees are records with a kind field k.  Python numbers are   *)
(* nodes too: an int is PyInt(n) = [k |-> "int", v |-> n]; a float is kept as the     *)
(* reduced rational it stands for, [k |-> "float", n |-> p, d |-> q].      *)
(* A raised exception is the node [k |-> "error", exc |-> name]; it        *)
(* propagates through every operator that receives it.                     *)
(***************************************************************************)
EXTENDS Integers, Sequences, FiniteSets, TLC

VARIABLES pc, assignments, pos, bessel_j_arg_to_top_order, insns,
          subst_log, inp, out, applied, compiled

vars == <<pc, assignments, pos, bessel_j_arg_to_top_order, insns,
          subst_log, inp, out, applied, compiled>>

(***************************************************************************)
(* Bounds of the model.                                                    *)
(***************************************************************************)
MaxTop == 4
MaxReq == 5

(***************************************************************************)
(* Integer helpers with Python's semantics.                                *)
(***************************************************************************)
Abs(n) == IF n < 0 THEN -n ELSE n

Max(a, b) == IF a >= b THEN a ELSE b

RECURSIVE Gcd(_, _)
Gcd(a, b) == IF b = 0 THEN Abs(a) ELSE Gcd(b, Abs(a) % Abs(b))

\* Python's a // b and a % b for b # 0: the quotient is rounded towards
\* minus infinity and the remainder has the sign of b.
PyFloorDiv(a, b) ==
    LET q == Abs(a) \div Abs(b)
        exact == (Abs(a) % Abs(b)) = 0
    IN  IF (a >= 0) = (b > 0) THEN q
        ELSE IF exact THEN -q ELSE -q - 1

PyMod(a, b) == a - b * PyFloorDiv(a, b)

RECURSIVE IntPow(_, _)
IntPow(b, e) == IF e = 0 THEN 1 ELSE b * IntPow(b, e - 1)

(***************************************************************************)
(* Expression nodes (pymbolic.primitives).                                 *)
(***************************************************************************)
None == [k |-> "none"]

PyInt(v) == [k |-> "int", v |-> v]

\* A float, as the reduced fraction n/d with d > 0.
PyFloat(n, d) ==
    LET g == Gcd(n, d)
        s == IF d < 0 THEN -1 ELSE 1
    IN  [k |-> "float", n |-> s * (n \div g), d |-> s * (d \div g)]

Variable(name) == [k |-> "var", name |-> name]

Call(function, parameters) ==
    [k |-> "call", function |-> function, parameters |-> parameters]

Sum(children) == [k |-> "sum", children |-> children]

Product(children) == [k |-> "product", children |-> children]

Quotient(numerator, denominator) ==
    [k |-> "quotient", numerator |-> numerator, denominator |-> denominator]

Power(base, exponent) == [k |-> "power", base |-> base, exponent |-> exponent]

Lookup(aggregate, name) == [k |-> "lookup", aggregate |-> aggregate, name |-> name]

Subscript(aggregate, index) ==
    [k |-> "subscript", aggregate |-> aggregate, index |-> index]

CommonSubexpression(child, prefix) ==
    [k |-> "cse", child |-> child, prefix |-> prefix]

\* CommonSubexpression(child) with no prefix given: prefix is None.
NoPrefix == "<None>"

Err(exc) == [k |-> "error", exc |-> exc]

IsErr(e) == e.k = "error"

is_constant(e) == e.k \in {"int", "float", "complex"}

IsNum(e) == e.k \in {"int", "float"}

NumN(e) == IF e.k = "int" THEN e.v ELSE e.n

NumD(e) == IF e.k = "int" THEN 1 ELSE e.d

is_zero(e) == IsNum(e) /\ NumN(e) = 0

\* is_zero(other - 1)
is_one(e) == IsNum(e) /\ NumN(e) = NumD(e)

\* The first error among the operands, if any.
FirstErr(es) ==
    LET bad == {i \in DOMAIN es : IsErr(es[i])}
    IN  IF bad = {} THEN None
        ELSE es[CHOOSE i \in bad : \A j \in bad : i <= j]

(***************************************************************************)
(* Python arithmetic on numbers and on pymbolic expressions: the operator  *)
(* overloads of pymbolic.primitives.Expression, Sum and Product that the   *)
(* expressions written in codegen.py go through.                           *)
(***************************************************************************)
NumMul(a, b) ==
    IF a.k = "int" /\ b.k = "int" THEN PyInt(a.v * b.v)
    ELSE PyFloat(NumN(a) * NumN(b), NumD(a) * NumD(b))

NumAdd(a, b) ==
    IF a.k = "int" /\ b.k = "int" THEN PyInt(a.v + b.v)
    ELSE PyFloat(NumN(a) * NumD(b) + NumN(b) * NumD(a), NumD(a) * NumD(b))

\* Python's b ** e for ints: an int for e >= 0, a float for e < 0.
NumPow(b, e) ==
    IF e >= 0 THEN PyInt(IntPow(b, e))
    ELSE IF b = 0 THEN Err("ZeroDivisionError")
    ELSE PyFloat(1, IntPow(b, -e))

\* a * b
PyMul(a, b) ==
    IF IsErr(a) THEN a
    ELSE IF IsErr(b) THEN b
    ELSE IF IsNum(a) /\ IsNum(b) THEN NumMul(a, b)
    ELSE IF ~IsNum(a) THEN
        \* a.__mul__(b)
        IF a.k = "product" /\ b.k = "product"
            THEN Product(a.children \o b.children)
        ELSE IF is_zero(b) THEN PyInt(0)
        ELSE IF is_one(b) THEN a
        ELSE IF a.k = "product" THEN Product(Append(a.children, b))
        ELSE Product(<<a, b>>)
    ELSE
        \* b.__rmul__(a), a a constant
        IF is_zero(a) THEN PyInt(0)
        ELSE IF is_one(a) THEN b
        ELSE IF b.k = "product" THEN Product(<<a>> \o b.children)
        ELSE Product(<<a, b>>)

\* -a
PyNeg(a) == PyMul(PyInt(-1), a)

\* a + b
PyAdd(a, b) ==
    IF IsErr(a) THEN a
    ELSE IF IsErr(b) THEN b
    ELSE IF IsNum(a) /\ IsNum(b) THEN NumAdd(a, b)
    ELSE IF ~IsNum(a) THEN
        \* a.__add__(b)
        IF is_zero(b) THEN a
        ELSE IF a.k = "sum" /\ b.k = "sum" THEN Sum(a.children \o b.children)
        ELSE IF a.k = "sum" THEN Sum(Append(a.children, b))
        ELSE IF b.k = "sum" THEN Sum(<<a>> \o b.children)
        ELSE Sum(<<a, b>>)
    ELSE
        \* b.__radd__(a), a a constant
        IF is_zero(a) THEN b ELSE Sum(<<a, b>>)

\* a - b, a an expression
PySub(a, b) ==
    IF IsErr(a) THEN a
    ELSE IF IsErr(b) THEN b
    ELSE IF is_zero(b) THEN a
    ELSE IF a.k = "sum" THEN Sum(Append(a.children, PyNeg(b)))
    ELSE Sum(<<a, PyNeg(b)>>)

\* a / b under "from __future__ import division", b an expression or both
\* numbers (int / int is then the true quotient, a float).
PyDiv(a, b) ==
    IF IsErr(a) THEN a
    ELSE IF IsErr(b) THEN b
    ELSE IF IsNum(a) /\ IsNum(b) THEN
        IF NumN(b) = 0 THEN Err("ZeroDivisionError")
        ELSE PyFloat(NumN(a) * NumD(b), NumD(a) * NumN(b))
    ELSE IF ~IsNum(a) THEN
        \* a.__truediv__(b)
        IF is_one(b) THEN a ELSE Quotient(a, b)
    ELSE
        \* b.__rtruediv__(a)
        IF is_zero(a) THEN PyInt(0) ELSE Quotient(a, b)

\* a ** e, a an expression and e a Python int
PyPow(a, e) ==
    IF IsErr(a) THEN a
    ELSE IF e = 0 THEN PyInt(1)
    ELSE IF e = 1 THEN a
    ELSE Power(a, PyInt(e))

\* prim.wrap_in_cse(expr, prefix): variables and subscripts stay bare, an
\* existing wrapper is kept (it only takes the prefix when it has none).
wrap_in_cse(expr, prefix) ==
    IF IsErr(expr) THEN expr
    ELSE IF expr.k \in {"var", "subscript"} THEN expr
    ELSE IF expr.k = "cse" THEN
        IF prefix = NoPrefix THEN expr
        ELSE IF expr.prefix = NoPrefix
            THEN CommonSubexpression(expr.child, prefix)
        ELSE expr
    ELSE CommonSubexpression(expr, prefix)

\* CommonSubexpression(child, prefix) around a value that may be an error.
MkCSE(child, prefix) ==
    IF IsErr(child) THEN child ELSE CommonSubexpression(child, prefix)

\* "%d" % n
FmtD(n) == ToString(n)

(***************************************************************************)
(* BesselGetter.  memoize_method caches each result by (order, arg); the   *)
(* methods are pure, so a cached result is the computed one.               *)
(***************************************************************************)
hank1_01(arg) == Call(Variable("hank1_01"), <<arg>>)

bessel_j_impl(order, arg) == Call(Variable("bessel_jv"), <<PyInt(order), arg>>)

RECURSIVE hankel_1(_, _)
RECURSIVE bessel_j(_, _, _)

\* hankel_1 with the sign of the reflection formula left out.
hankel_1_nosign(order, arg) ==
    IF order = 0 THEN
        Lookup(CommonSubexpression(hank1_01(arg), "hank1_01_result"), "order0")
    ELSE IF order = 1 THEN
        Lookup(CommonSubexpression(hank1_01(arg), "hank1_01_result"), "order1")
    ELSE IF order < 0 THEN
        LET nu == -order
        IN  wrap_in_cse(hankel_1(nu, arg), "hank1_neg" \o FmtD(nu))
    ELSE
        LET nu == order - 1
        IN  CommonSubexpression(
                PySub(PyMul(PyDiv(PyInt(2 * nu), arg), hankel_1(nu, arg)),
                      hankel_1(nu - 1, arg)),
                "hank1_" \o FmtD(order))

\* hankel_1 whose recurrence has the factor 2*order/arg, not 2*(order-1)/arg.
hankel_1_factor(order, arg) ==
    IF order = 0 THEN
        Lookup(CommonSubexpression(hank1_01(arg), "hank1_01_result"), "order0")
    ELSE IF order = 1 THEN
        Lookup(CommonSubexpression(hank1_01(arg), "hank1_01_result"), "order1")
    ELSE IF order < 0 THEN
        LET nu == -order
        IN  wrap_in_cse(PyMul(NumPow(-1, nu), hankel_1(nu, arg)),
                        "hank1_neg" \o FmtD(nu))
    ELSE
        LET nu == order - 1
        IN  CommonSubexpression(
                PySub(PyMul(PyDiv(PyInt(2 * order), arg), hankel_1(nu, arg)),
                      hankel_1(nu - 1, arg)),
                "hank1_" \o FmtD(order))

hankel_1(order, arg) ==
    IF order = 0 THEN
        Lookup(CommonSubexpression(hank1_01(arg), "hank1_01_result"), "order0")
    ELSE IF order = 1 THEN
        Lookup(CommonSubexpression(hank1_01(arg), "hank1_01_result"), "order1")
    ELSE IF order < 0 THEN
        LET nu == -order
        IN  wrap_in_cse(PyMul(NumPow(-1, nu), hankel_1(nu, arg)),
                        "hank1_neg" \o FmtD(nu))
    ELSE
        LET nu == order - 1
        IN  CommonSubexpression(
                PySub(PyMul(PyDiv(PyInt(2 * nu), arg), hankel_1(nu, arg)),
                      hankel_1(nu - 1, arg)),
                "hank1_" \o FmtD(order))

\* bessel_j whose recurrence takes its second term two orders too high.
bessel_j_skip(m, order, arg) ==
    IF arg \notin DOMAIN m THEN Err("KeyError")
    ELSE
    LET top_order == m[arg]
    IN  IF order = top_order \/ order = top_order - 1 THEN
            CommonSubexpression(bessel_j_impl(order, arg),
                                "bessel_j_" \o FmtD(order))
        ELSE IF order < 0 THEN
            PyMul(NumPow(-1, order), bessel_j(m, -order, arg))
        ELSE IF ~(Abs(order) < top_order) THEN Err("AssertionError")
        ELSE
            LET nu == order + 1
            IN  MkCSE(PySub(PyMul(PyDiv(PyInt(2 * nu), arg), bessel_j(m, nu, arg)),
                            bessel_j(m, nu + 2, arg)),
                      "bessel_j_" \o FmtD(order))

\* bessel_j that evaluates every order from top-1 upwards directly.
bessel_j_direct_above(m, order, arg) ==
    IF arg \notin DOMAIN m THEN Err("KeyError")
    ELSE
    LET top_order == m[arg]
    IN  IF order >= top_order - 1 THEN
            CommonSubexpression(bessel_j_impl(order, arg),
                                "bessel_j_" \o FmtD(order))
        ELSE IF order < 0 THEN
            PyMul(NumPow(-1, order), bessel_j(m, -order, arg))
        ELSE IF ~(Abs(order) < top_order) THEN Err("AssertionError")
        ELSE
            LET nu == order + 1
            IN  MkCSE(PySub(PyMul(PyDiv(PyInt(2 * nu), arg), bessel_j(m, nu, arg)),
                            bessel_j(m, nu + 1, arg)),
                      "bessel_j_" \o FmtD(order))

\* m is bessel_j_arg_to_top_order, a function from arguments to top orders.
bessel_j(m, order, arg) ==
    IF arg \notin DOMAIN m THEN Err("KeyError")
    ELSE
    LET top_order == m[arg]
    IN  IF order = top_order THEN
            CommonSubexpression(bessel_j_impl(order, arg),
                                "bessel_j_" \o FmtD(order))
        ELSE IF order = top_order - 1 THEN
            CommonSubexpression(bessel_j_impl(order, arg),
                                "bessel_j_" \o FmtD(order))
        ELSE IF order < 0 THEN
            PyMul(NumPow(-1, order), bessel_j(m, -order, arg))
        ELSE IF ~(Abs(order) < top_order) THEN Err("AssertionError")
        ELSE
            LET nu == order + 1
            IN  MkCSE(PySub(PyMul(PyDiv(PyInt(2 * nu), arg), bessel_j(m, nu, arg)),
                            bessel_j(m, nu + 1, arg)),
                      "bessel_j_" \o FmtD(order))

(***************************************************************************)
(* The mappers.  rec(mapper, expr) is mapper.rec(expr): it dispatches on   *)
(* the node kind to the mapper's own map_ method when its class overrides  *)
(* it and to IdentityMapper's otherwise.  A mapper is a record: its class  *)
(* cls and the attributes its constructor stored.                          *)
(***************************************************************************)
Derivative(child, variables) ==
    [k |-> "derivative", child |-> child, variables |-> variables]

Substitution(child, variables, values) ==
    [k |-> "substitution", child |-> child, variables |-> variables,
     values |-> values]

\* A complex literal of the given numpy type ("complex" is Python's own).
Complex(re, im, dtype) == [k |-> "complex", re |-> re, im |-> im, dtype |-> dtype]

RECURSIVE rec(_, _)

\* tuple(self.rec(child) for child in children)
RecAll(mapper, children) == [i \in DOMAIN children |-> rec(mapper, children[i])]

\* IdentityMapper's methods: the node rebuilt over its mapped children.
IdentityMapper(mapper, expr) ==
    CASE expr.k = "call" ->
            LET f == rec(mapper, expr.function)
                ps == RecAll(mapper, expr.parameters)
            IN  IF IsErr(f) THEN f
                ELSE IF FirstErr(ps) # None THEN FirstErr(ps)
                ELSE Call(f, ps)
      [] expr.k \in {"sum", "product"} ->
            LET cs == RecAll(mapper, expr.children)
            IN  IF FirstErr(cs) # None THEN FirstErr(cs)
                ELSE [k |-> expr.k, children |-> cs]
      [] expr.k = "quotient" ->
            LET n == rec(mapper, expr.numerator)
                d == rec(mapper, expr.denominator)
            IN  IF IsErr(n) THEN n ELSE IF IsErr(d) THEN d ELSE Quotient(n, d)
      [] expr.k = "power" ->
            LET b == rec(mapper, expr.base)
                e == rec(mapper, expr.exponent)
            IN  IF IsErr(b) THEN b ELSE IF IsErr(e) THEN e ELSE Power(b, e)
      [] expr.k = "lookup" ->
            LET a == rec(mapper, expr.aggregate)
            IN  IF IsErr(a) THEN a ELSE Lookup(a, expr.name)
      [] expr.k = "subscript" ->
            LET a == rec(mapper, expr.aggregate)
                i == rec(mapper, expr.index)
            IN  IF IsErr(a) THEN a ELSE IF IsErr(i) THEN i ELSE Subscript(a, i)
      [] expr.k = "cse" ->
            LET result == rec(mapper, expr.child)
            IN  IF IsErr(result) THEN result
                ELSE IF is_zero(result) THEN PyInt(0)
                ELSE CommonSubexpression(result, expr.prefix)
      [] expr.k = "derivative" ->
            LET c == rec(mapper, expr.child)
            IN  IF IsErr(c) THEN c ELSE Derivative(c, expr.variables)
      [] expr.k = "substitution" ->
            LET c == rec(mapper, expr.child)
                vs == RecAll(mapper, expr.values)
            IN  IF IsErr(c) THEN c
                ELSE IF FirstErr(vs) # None THEN FirstErr(vs)
                ELSE Substitution(c, expr.variables, vs)
      [] OTHER -> expr    \* map_constant, map_variable

\* sp.binomial(n, i)
RECURSIVE binomial(_, _)
binomial(n, i) ==
    IF i < 0 \/ i > n THEN 0
    ELSE IF i = 0 \/ i = n THEN 1
    ELSE binomial(n - 1, i - 1) + binomial(n - 1, i)

\* sum(terms): the builtin folds + from 0 on, left to right.
RECURSIVE PySum(_, _)
PySum(acc, terms) ==
    IF terms = <<>> THEN acc ELSE PySum(PyAdd(acc, Head(terms)), Tail(terms))

\* The names the derivative replacer and the substitutor handle.
BesselFamilies == {"hankel_1", "bessel_j"}

IsFamilyCall(call) ==
    /\ call.k = "call"
    /\ call.function.k = "var"
    /\ call.function.name \in BesselFamilies

\* map_substitution with the factor 2**k where the code has 2**(-k).
BesselDerivativeReplacer_map_substitution_factor(mapper, expr) ==
    IF expr.child.k # "derivative" THEN Err("AssertionError")
    ELSE
    LET call == expr.child.child
    IN  IF IsFamilyCall(call) THEN
            IF Len(expr.values) # 1 THEN Err("ValueError")
            ELSE
            LET function == call.function
                order == call.parameters[1].v
                arg == expr.values[1]
                n_derivs == Len(expr.child.variables)
                order_str == IF order >= 0 THEN ToString(order)
                             ELSE "m" \o ToString(-order)
                kk == n_derivs
                terms == [idx1 \in 1..(kk + 1) |->
                            LET idx == idx1 - 1
                                i == order - kk + 2 * idx
                            IN  PyMul(NumMul(NumPow(-1, idx), PyInt(binomial(kk, idx))),
                                      Call(function, <<PyInt(i), arg>>))]
            IN  MkCSE(PyMul(NumPow(2, kk), PySum(PyInt(0), terms)),
                      "d" \o FmtD(n_derivs) \o "_" \o function.name \o "_" \o order_str)
        ELSE IdentityMapper(mapper, expr)

BesselDerivativeReplacer_map_substitution(mapper, expr) ==
    IF expr.child.k # "derivative" THEN Err("AssertionError")
    ELSE
    LET call == expr.child.child
    IN  IF IsFamilyCall(call) THEN
            IF Len(expr.values) # 1 THEN Err("ValueError")
            ELSE
            LET function == call.function
                order == call.parameters[1].v
                arg == expr.values[1]
                n_derivs == Len(expr.child.variables)
                order_str == IF order >= 0 THEN ToString(order)
                             ELSE "m" \o ToString(-order)
                kk == n_derivs
                terms == [idx1 \in 1..(kk + 1) |->
                            LET idx == idx1 - 1
                                i == order - kk + 2 * idx
                            IN  PyMul(NumMul(NumPow(-1, idx), PyInt(binomial(kk, idx))),
                                      Call(function, <<PyInt(i), arg>>))]
            IN  MkCSE(PyMul(NumPow(2, -kk), PySum(PyInt(0), terms)),
                      "d" \o FmtD(n_derivs) \o "_" \o function.name \o "_" \o order_str)
        ELSE IdentityMapper(mapper, expr)

BesselSubstitutor_map_call(mapper, expr) ==
    IF IsFamilyCall(expr) THEN
        LET order == expr.parameters[1].v
            arg == rec(mapper, expr.parameters[2])
        IN  IF IsErr(arg) THEN arg
            ELSE IF expr.function.name = "hankel_1" THEN hankel_1(order, arg)
            ELSE bessel_j(mapper.bessel_j_arg_to_top_order, order, arg)
    ELSE IdentityMapper(mapper, expr)

\* map_power without the reciprocal for a negative exponent.
PowerRewriter_map_power_noreciprocal(mapper, expr) ==
    LET exp == expr.exponent
        isint == exp.k = "int"
        new_base == wrap_in_cse(expr.base, NoPrefix)
        square == wrap_in_cse(PyMul(new_base, new_base), NoPrefix)
        israt == /\ exp.k = "quotient"
                 /\ exp.numerator.k = "int"
                 /\ exp.denominator.k = "int"
    IN  IF isint /\ exp.v > 1 /\ PyMod(exp.v, 2) = 0 THEN
            rec(mapper, wrap_in_cse(PyPow(square, PyFloorDiv(exp.v, 2)), NoPrefix))
        ELSE IF isint /\ exp.v > 1 /\ PyMod(exp.v, 2) = 1 THEN
            rec(mapper,
                PyMul(wrap_in_cse(PyPow(square, PyFloorDiv(exp.v - 1, 2)), NoPrefix),
                      new_base))
        ELSE IF isint /\ exp.v = 1 THEN new_base
        ELSE IF isint /\ exp.v < 0 THEN
            rec(mapper, PyPow(new_base, -exp.v))
        ELSE IF israt THEN
            LET p == IF exp.denominator.v < 0 THEN -exp.numerator.v
                     ELSE exp.numerator.v
                q == Abs(exp.denominator.v)
            IN  IF q = 1 THEN
                    \* new_base is assigned only when the exponent is an int
                    Err("UnboundLocalError")
                ELSE IF q = 2 THEN
                    IF p = 0 THEN Err("AssertionError")
                    ELSE IF p > 0 THEN
                        LET orig_base == wrap_in_cse(expr.base, NoPrefix)
                            sqrt_base == wrap_in_cse(
                                Call(Variable("sqrt"), <<orig_base>>), NoPrefix)
                        IN  rec(mapper, PyPow(sqrt_base, p))
                    ELSE
                        LET rsqrt_base == wrap_in_cse(
                                Call(Variable("rsqrt"), <<expr.base>>), NoPrefix)
                        IN  rec(mapper, PyPow(rsqrt_base, -p))
                ELSE IdentityMapper(mapper, expr)
        ELSE IdentityMapper(mapper, expr)

\* map_power that folds a zero exponent to the constant 1.
PowerRewriter_map_power_zero(mapper, expr) ==
    LET exp == expr.exponent
        isint == exp.k = "int"
        new_base == wrap_in_cse(expr.base, NoPrefix)
        square == wrap_in_cse(PyMul(new_base, new_base), NoPrefix)
        israt == /\ exp.k = "quotient"
                 /\ exp.numerator.k = "int"
                 /\ exp.denominator.k = "int"
    IN  IF isint /\ exp.v > 1 /\ PyMod(exp.v, 2) = 0 THEN
            rec(mapper, wrap_in_cse(PyPow(square, PyFloorDiv(exp.v, 2)), NoPrefix))
        ELSE IF isint /\ exp.v > 1 /\ PyMod(exp.v, 2) = 1 THEN
            rec(mapper,
                PyMul(wrap_in_cse(PyPow(square, PyFloorDiv(exp.v - 1, 2)), NoPrefix),
                      new_base))
        ELSE IF isint /\ exp.v = 1 THEN new_base
        ELSE IF isint /\ exp.v = 0 THEN PyInt(1)
        ELSE IF isint /\ exp.v < 0 THEN
            rec(mapper, PyPow(PyDiv(PyInt(1), new_base), -exp.v))
        ELSE IF israt THEN
            LET p == IF exp.denominator.v < 0 THEN -exp.numerator.v
                     ELSE exp.numerator.v
                q == Abs(exp.denominator.v)
            IN  IF q = 1 THEN
                    \* new_base is assigned only when the exponent is an int
                    Err("UnboundLocalError")
                ELSE IF q = 2 THEN
                    IF p = 0 THEN Err("AssertionError")
                    ELSE IF p > 0 THEN
                        LET orig_base == wrap_in_cse(expr.base, NoPrefix)
                            sqrt_base == wrap_in_cse(
                                Call(Variable("sqrt"), <<orig_base>>), NoPrefix)
                        IN  rec(mapper, PyPow(sqrt_base, p))
                    ELSE
                        LET rsqrt_base == wrap_in_cse(
                                Call(Variable("rsqrt"), <<expr.base>>), NoPrefix)
                        IN  rec(mapper, PyPow(rsqrt_base, -p))
                ELSE IdentityMapper(mapper, expr)
        ELSE IdentityMapper(mapper, expr)

\* map_power that calls sqrt where the code calls rsqrt.
PowerRewriter_map_power_sqrt(mapper, expr) ==
    LET exp == expr.exponent
        isint == exp.k = "int"
        new_base == wrap_in_cse(expr.base, NoPrefix)
        square == wrap_in_cse(PyMul(new_base, new_base), NoPrefix)
        israt == /\ exp.k = "quotient"
                 /\ exp.numerator.k = "int"
                 /\ exp.denominator.k = "int"
    IN  IF isint /\ exp.v > 1 /\ PyMod(exp.v, 2) = 0 THEN
            rec(mapper, wrap_in_cse(PyPow(square, PyFloorDiv(exp.v, 2)), NoPrefix))
        ELSE IF isint /\ exp.v > 1 /\ PyMod(exp.v, 2) = 1 THEN
            rec(mapper,
                PyMul(wrap_in_cse(PyPow(square, PyFloorDiv(exp.v - 1, 2)), NoPrefix),
                      new_base))
        ELSE IF isint /\ exp.v = 1 THEN new_base
        ELSE IF isint /\ exp.v < 0 THEN
            rec(mapper, PyPow(PyDiv(PyInt(1), new_base), -exp.v))
        ELSE IF israt THEN
            LET p == IF exp.denominator.v < 0 THEN -exp.numerator.v
                     ELSE exp.numerator.v
                q == Abs(exp.denominator.v)
            IN  IF q = 1 THEN
                    \* new_base is assigned only when the exponent is an int
                    Err("UnboundLocalError")
                ELSE IF q = 2 THEN
                    IF p = 0 THEN Err("AssertionError")
                    ELSE IF p > 0 THEN
                        LET orig_base == wrap_in_cse(expr.base, NoPrefix)
                            sqrt_base == wrap_in_cse(
                                Call(Variable("sqrt"), <<orig_base>>), NoPrefix)
                        IN  rec(mapper, PyPow(sqrt_base, p))
                    ELSE
                        LET rsqrt_base == wrap_in_cse(
                                Call(Variable("sqrt"), <<expr.base>>), NoPrefix)
                        IN  rec(mapper, PyPow(rsqrt_base, -p))
                ELSE IdentityMapper(mapper, expr)
        ELSE IdentityMapper(mapper, expr)

PowerRewriter_map_power(mapper, expr) ==
    LET exp == expr.exponent
        isint == exp.k = "int"
        new_base == wrap_in_cse(expr.base, NoPrefix)
        square == wrap_in_cse(PyMul(new_base, new_base), NoPrefix)
        israt == /\ exp.k = "quotient"
                 /\ exp.numerator.k = "int"
                 /\ exp.denominator.k = "int"
    IN  IF isint /\ exp.v > 1 /\ PyMod(exp.v, 2) = 0 THEN
            rec(mapper, wrap_in_cse(PyPow(square, PyFloorDiv(exp.v, 2)), NoPrefix))
        ELSE IF isint /\ exp.v > 1 /\ PyMod(exp.v, 2) = 1 THEN
            rec(mapper,
                PyMul(wrap_in_cse(PyPow(square, PyFloorDiv(exp.v - 1, 2)), NoPrefix),
                      new_base))
        ELSE IF isint /\ exp.v = 1 THEN new_base
        ELSE IF isint /\ exp.v < 0 THEN
            rec(mapper, PyPow(PyDiv(PyInt(1), new_base), -exp.v))
        ELSE IF israt THEN
            LET p == IF exp.denominator.v < 0 THEN -exp.numerator.v
                     ELSE exp.numerator.v
                q == Abs(exp.denominator.v)
            IN  IF q = 1 THEN
                    \* new_base is assigned only when the exponent is an int
                    Err("UnboundLocalError")
                ELSE IF q = 2 THEN
                    IF p = 0 THEN Err("AssertionError")
                    ELSE IF p > 0 THEN
                        LET orig_base == wrap_in_cse(expr.base, NoPrefix)
                            sqrt_base == wrap_in_cse(
                                Call(Variable("sqrt"), <<orig_base>>), NoPrefix)
                        IN  rec(mapper, PyPow(sqrt_base, p))
                    ELSE
                        LET rsqrt_base == wrap_in_cse(
                                Call(Variable("rsqrt"), <<expr.base>>), NoPrefix)
                        IN  rec(mapper, PyPow(rsqrt_base, -p))
                ELSE IdentityMapper(mapper, expr)
        ELSE IdentityMapper(mapper, expr)

\* map_quotient that always takes the floor quotient of two ints.
FractionKiller_map_quotient_floor(mapper, expr) ==
    LET num == expr.numerator
        denom == expr.denominator
    IN  IF num.k = "int" /\ denom.k = "int" THEN
            IF denom.v = 0 THEN Err("ZeroDivisionError")
            ELSE PyInt(PyFloorDiv(num.v, denom.v))
        ELSE IdentityMapper(mapper, expr)

FractionKiller_map_quotient(mapper, expr) ==
    LET num == expr.numerator
        denom == expr.denominator
    IN  IF num.k = "int" /\ denom.k = "int" THEN
            IF denom.v = 0 THEN Err("ZeroDivisionError")
            ELSE IF PyMod(num.v, denom.v) = 0 THEN PyInt(PyFloorDiv(num.v, denom.v))
            ELSE PyFloat(num.v, denom.v)
        ELSE IdentityMapper(mapper, expr)

\* The character classes of INDEXED_VAR_RE.
LetterChars ==
    {"a", "b", "c", "d", "e", "f", "g", "h", "i", "j", "k", "l", "m", "n", "o",
     "p", "q", "r", "s", "t", "u", "v", "w", "x", "y", "z",
     "A", "B", "C", "D", "E", "F", "G", "H", "I", "J", "K", "L", "M", "N", "O",
     "P", "Q", "R", "S", "T", "U", "V", "W", "X", "Y", "Z", "_"}

DigitChars == {"0", "1", "2", "3", "4", "5", "6", "7", "8", "9"}

CharAt(str, i) == SubSeq(str, i, i)

AllIn(str, chars) == \A i \in 1..Len(str) : CharAt(str, i) \in chars

DigitValue(c) ==
    CASE c = "0" -> 0 [] c = "1" -> 1 [] c = "2" -> 2 [] c = "3" -> 3
      [] c = "4" -> 4 [] c = "5" -> 5 [] c = "6" -> 6 [] c = "7" -> 7
      [] c = "8" -> 8 [] c = "9" -> 9

\* int(digits)
RECURSIVE ParseInt(_)
ParseInt(digits) ==
    IF Len(digits) = 0 THEN 0
    ELSE 10 * ParseInt(SubSeq(digits, 1, Len(digits) - 1))
         + DigitValue(CharAt(digits, Len(digits)))

\* INDEXED_VAR_RE.match(name): the places where name splits into group 1
\* ([a-zA-Z_]+) and group 2 ([0-9]+); there is at most one.
INDEXED_VAR_RE(name) ==
    {i \in 1..(Len(name) - 1) :
        /\ AllIn(SubSeq(name, 1, i), LetterChars)
        /\ AllIn(SubSeq(name, i + 1, Len(name)), DigitChars)}

\* map_variable that rewrites every indexed name, whitelisted or not.
VectorComponentRewriter_map_variable_any(mapper, expr) ==
    LET match_obj == INDEXED_VAR_RE(expr.name)
    IN  IF match_obj # {} THEN
            LET i == CHOOSE i \in match_obj : TRUE
                name == SubSeq(expr.name, 1, i)
                subscript == ParseInt(SubSeq(expr.name, i + 1, Len(expr.name)))
            IN  Subscript(Variable(name), PyInt(subscript))
        ELSE expr

VectorComponentRewriter_map_variable(mapper, expr) ==
    LET match_obj == INDEXED_VAR_RE(expr.name)
    IN  IF match_obj # {} THEN
            LET i == CHOOSE i \in match_obj : TRUE
                name == SubSeq(expr.name, 1, i)
                subscript == ParseInt(SubSeq(expr.name, i + 1, Len(expr.name)))
            IN  IF name \in mapper.name_whitelist
                THEN Subscript(Variable(name), PyInt(subscript))
                ELSE expr
        ELSE expr

\* isinstance(subchild, int) and subchild < 0
IsNegInt(e) == e.k = "int" /\ e.v < 0

\* Whether SumSignGrouper.map_sum puts child in second_group.
InSecondGroup(child) ==
    LET tchild == IF child.k = "cse" THEN child.child ELSE child
    IN  /\ tchild.k = "product"
        /\ LET neg_int_count ==
                   Cardinality({i \in DOMAIN tchild.children :
                                    IsNegInt(tchild.children[i])})
           IN  PyMod(neg_int_count, 2) = 1

\* The children that are (want) or are not in the second group, in their order.
RECURSIVE SelectSeq2(_, _)
SelectSeq2(seq, want) ==
    IF seq = <<>> THEN <<>>
    ELSE IF InSecondGroup(Head(seq)) = want
        THEN <<Head(seq)>> \o SelectSeq2(Tail(seq), want)
    ELSE SelectSeq2(Tail(seq), want)

\* map_sum that returns the groups in the opposite order.
SumSignGrouper_map_sum_swapped(mapper, expr) ==
    LET first_group == SelectSeq2(expr.children, FALSE)
        second_group == SelectSeq2(expr.children, TRUE)
    IN  Sum(second_group \o first_group)

\* The sequence in the opposite order.
RECURSIVE Reversed(_)
Reversed(seq) ==
    IF seq = <<>> THEN <<>> ELSE Append(Reversed(Tail(seq)), Head(seq))

\* map_sum that prepends to second_group where the code appends.
SumSignGrouper_map_sum_prepend(mapper, expr) ==
    LET first_group == SelectSeq2(expr.children, FALSE)
        second_group == Reversed(SelectSeq2(expr.children, TRUE))
    IN  Sum(first_group \o second_group)

SumSignGrouper_map_sum(mapper, expr) ==
    LET first_group == SelectSeq2(expr.children, FALSE)
        second_group == SelectSeq2(expr.children, TRUE)
    IN  Sum(first_group \o second_group)

MathConstantRewriter_map_variable(mapper, expr) ==
    IF expr.name = "pi" THEN Variable("M_PI") ELSE expr

\* np.dtype(name).kind
DtypeKind(dtype) ==
    CASE dtype \in {"complex64", "complex128"} -> "c"
      [] dtype \in {"float32", "float64"} -> "f"
      [] OTHER -> "O"

\* map_constant that tests isinstance(expr, complex) only: a literal of a
\* numpy complex type that is no subclass of complex is passed over.
ComplexConstantSizer_map_constant_builtin(mapper, expr) ==
    IF expr.k = "complex" /\ expr.dtype \in {"complex", "complex128"} THEN
        IF DtypeKind(mapper.dtype) # "c" THEN Err("AssertionError")
        ELSE Complex(expr.re, expr.im, mapper.dtype)
    ELSE expr

ComplexConstantSizer_map_constant(mapper, expr) ==
    IF expr.k = "complex" THEN
        IF DtypeKind(mapper.dtype) # "c" THEN Err("AssertionError")
        ELSE Complex(expr.re, expr.im, mapper.dtype)
    ELSE expr

rec(mapper, expr) ==
    IF IsErr(expr) THEN expr
    ELSE
    CASE mapper.cls = "BesselDerivativeReplacer" /\ expr.k = "substitution" ->
            BesselDerivativeReplacer_map_substitution(mapper, expr)
      [] mapper.cls = "BesselSubstitutor" /\ expr.k = "call" ->
            BesselSubstitutor_map_call(mapper, expr)
      [] mapper.cls = "PowerRewriter" /\ expr.k = "power" ->
            PowerRewriter_map_power(mapper, expr)
      [] mapper.cls = "FractionKiller" /\ expr.k = "quotient" ->
            FractionKiller_map_quotient(mapper, expr)
      [] mapper.cls = "VectorComponentRewriter" /\ expr.k = "var" ->
            VectorComponentRewriter_map_variable(mapper, expr)
      [] mapper.cls = "SumSignGrouper" /\ expr.k = "sum" ->
            SumSignGrouper_map_sum(mapper, expr)
      [] mapper.cls = "MathConstantRewriter" /\ expr.k = "var" ->
            MathConstantRewriter_map_variable(mapper, expr)
      [] mapper.cls = "ComplexConstantSizer" /\ is_constant(expr) ->
            ComplexConstantSizer_map_constant(mapper, expr)
      [] OTHER -> IdentityMapper(mapper, expr)

\* The mapper objects to_loopy_insns builds.
BesselDerivativeReplacer == [cls |-> "BesselDerivativeReplacer"]

BesselSubstitutor(m) ==
    [cls |-> "BesselSubstitutor", bessel_j_arg_to_top_order |-> m]

VectorComponentRewriter(name_whitelist) ==
    [cls |-> "VectorComponentRewriter", name_whitelist |-> name_whitelist]

PowerRewriter == [cls |-> "PowerRewriter"]

SumSignGrouper == [cls |-> "SumSignGrouper"]

FractionKiller == [cls |-> "FractionKiller"]

MathConstantRewriter == [cls |-> "MathConstantRewriter"]

ComplexConstantSizer(dtype) == [cls |-> "ComplexConstantSizer", dtype |-> dtype]

(***************************************************************************)
(* Inspection of expression trees, for stating properties.                 *)
(***************************************************************************)
\* The direct sub-nodes of a node, in the order a WalkMapper visits them.
KidSeq(e) ==
    CASE e.k = "call" -> <<e.function>> \o e.parameters
      [] e.k \in {"sum", "product"} -> e.children
      [] e.k = "quotient" -> <<e.numerator, e.denominator>>
      [] e.k = "power" -> <<e.base, e.exponent>>
      [] e.k = "lookup" -> <<e.aggregate>>
      [] e.k = "subscript" -> <<e.aggregate, e.index>>
      [] e.k = "cse" -> <<e.child>>
      [] e.k = "derivative" -> <<e.child>>
      [] e.k = "substitution" -> <<e.child>> \o e.values
      [] OTHER -> <<>>

Kids(e) == {KidSeq(e)[i] : i \in DOMAIN KidSeq(e)}

\* Every node of the tree e, e included.
RECURSIVE Nodes(_)
Nodes(e) == {e} \cup UNION {Nodes(c) : c \in Kids(e)}

(***************************************************************************)
(* BesselTopOrderGatherer: a WalkMapper whose state is the map from the    *)
(* arguments of the bessel_j calls met so far to the highest |order| met.  *)
(* Gather(m, e) is the map after the walk of e started with the map m.     *)
(***************************************************************************)
\* d[key] = value
Put(d, key, value) ==
    [x \in (DOMAIN d) \cup {key} |-> IF x = key THEN value ELSE d[x]]

\* d.get(key, default)
Get(d, key, default) == IF key \in DOMAIN d THEN d[key] ELSE default

RECURSIVE Gather(_, _)

RECURSIVE GatherSeq(_, _)
GatherSeq(m, exprs) ==
    IF exprs = <<>> THEN m ELSE GatherSeq(Gather(m, Head(exprs)), Tail(exprs))

BesselTopOrderGatherer_map_call(m, expr) ==
    IF expr.function.k = "var" /\ expr.function.name = "bessel_j" THEN
        LET order == expr.parameters[1]
            arg == expr.parameters[2]
            walked == Gather(m, arg)
        IN  Put(walked, arg, Max(Get(walked, arg, 0), Abs(order.v)))
    ELSE GatherSeq(m, KidSeq(expr))

Gather(m, expr) ==
    IF expr.k = "call" THEN BesselTopOrderGatherer_map_call(m, expr)
    ELSE GatherSeq(m, KidSeq(expr))

\* The calls of the named function in e.
CallsOf(name, e) ==
    {n \in Nodes(e) : n.k = "call" /\ n.function = Variable(name)}

\* The calls in e of a special function (a function evaluated at run time).
SpecialFunctions == {"bessel_jv", "hank1_01", "hankel_1", "bessel_j"}

SpecialCalls(e) ==
    {n \in Nodes(e) : n.k = "call" /\ n.function.k = "var"
                      /\ n.function.name \in SpecialFunctions}

(***************************************************************************)
(* Specification SpecBessel: one BesselGetter, built over a map that       *)
(* records inp.top for inp.arg, serves one request.                        *)
(***************************************************************************)
BesselArgs ==
    {Variable("x"),
     Sum(<<Variable("x"), PyInt(1)>>),
     Product(<<PyInt(2), Variable("r0")>>)}

\* The values the driver's variables have while a single pass is examined.
Idle ==
    /\ assignments = <<>>
    /\ pos = 0
    /\ bessel_j_arg_to_top_order = <<>>
    /\ insns = <<>>
    /\ subst_log = {}
    /\ applied = <<>>
    /\ compiled = <<>>

IdleUnchanged ==
    UNCHANGED <<assignments, pos, bessel_j_arg_to_top_order, insns, subst_log,
                applied, compiled>>

InitBessel ==
    /\ Idle
    /\ pc = "start"
    /\ inp \in [top : 0..MaxTop, order : (-MaxReq)..MaxReq, arg : BesselArgs]
    /\ out = None

\* bessel_getter.bessel_j(order, arg)
RequestBesselJ ==
    /\ pc = "start"
    /\ out' = bessel_j(inp.arg :> inp.top, inp.order, inp.arg)
    /\ pc' = "bessel_j"
    /\ UNCHANGED inp
    /\ IdleUnchanged

\* bessel_getter.hankel_1(order, arg)
RequestHankel1 ==
    /\ pc = "start"
    /\ out' = hankel_1(inp.order, inp.arg)
    /\ pc' = "hankel_1"
    /\ UNCHANGED inp
    /\ IdleUnchanged

NextBessel == RequestBesselJ \/ RequestHankel1

SpecBessel == InitBessel /\ [][NextBessel]_vars

\* The tag of the common subexpression that holds Bessel J of order j.
BesselJTag(j) == "bessel_j_" \o FmtD(j)

JOrders == (-MaxReq - 2)..(MaxReq + MaxTop + 2)

\* The orders whose tagged subexpressions occur in e.
JOrdersIn(e) ==
    {j \in JOrders : \E n \in Nodes(e) : n.k = "cse" /\ n.prefix = BesselJTag(j)}

\* C1: for 0 <= k <= top, bessel_j(k, arg) is an expression whose only
\* special-function calls are bessel_jv(top, arg) and bessel_jv(top-1, arg);
\* each order j < top-1 in it is the recurrence over the subexpressions of
\* orders j+1 and j+2, and no order is defined from a lower one.
C1_BesselJDownward ==
    (pc = "bessel_j" /\ 0 <= inp.order /\ inp.order <= inp.top) =>
        /\ ~IsErr(out)
        /\ out.k = "cse" /\ out.prefix = BesselJTag(inp.order)
        /\ SpecialCalls(out) \subseteq
               {bessel_j_impl(inp.top, inp.arg), bessel_j_impl(inp.top - 1, inp.arg)}
        /\ \A n \in Nodes(out) : \A j \in JOrders :
               (n.k = "cse" /\ n.prefix = BesselJTag(j)) =>
                   /\ \A i \in JOrdersIn(n.child) : i > j
                   /\ \/ /\ j \in {inp.top, inp.top - 1}
                         /\ n.child = bessel_j_impl(j, inp.arg)
                      \/ /\ j < inp.top - 1
                         /\ n.child.k = "sum"
                         /\ Len(n.child.children) = 2
                         /\ n.child.children[1].k = "product"
                         /\ n.child.children[1].children[1]
                                = Quotient(PyInt(2 * (j + 1)), inp.arg)
                         /\ n.child.children[1].children[2].k = "cse"
                         /\ n.child.children[1].children[2].prefix = BesselJTag(j + 1)
                         /\ n.child.children[2].k = "product"
                         /\ n.child.children[2].children[1] = PyInt(-1)
                         /\ n.child.children[2].children[2].k = "cse"
                         /\ n.child.children[2].children[2].prefix = BesselJTag(j + 2)

C1_Witness ==
    /\ pc = "bessel_j" /\ inp.order = 0 /\ inp.top = 3
    /\ JOrdersIn(out) = {0, 1, 2, 3}

\* C2 as stated: every request with |order| >= top fails the assertion.
C2_AssertAtOrAboveTop ==
    (pc = "bessel_j" /\ Abs(inp.order) >= inp.top) => out = Err("AssertionError")

\* C2, amended: a request with |order| > top fails the assertion (but for
\* order -1 at top 0, which the top-1 branch serves), and a request with
\* |order| = top returns an expression.
C2_AssertAboveTop ==
    pc = "bessel_j" =>
        /\ (Abs(inp.order) > inp.top /\ ~(inp.top = 0 /\ inp.order = -1))
               => out = Err("AssertionError")
        /\ Abs(inp.order) = inp.top => ~IsErr(out)

C2_Witness ==
    /\ pc = "bessel_j" /\ inp.top = 2 /\ inp.order = -4
    /\ out = Err("AssertionError")

StripCSE(e) == IF e.k = "cse" THEN e.child ELSE e

\* C4: for n > 0, hankel_1(-n, arg) is, under its wrapper, the product of
\* (-1)^n and hankel_1(n, arg): -1 times it for odd n, it alone for even n.
C4_HankelReflection ==
    (pc = "hankel_1" /\ inp.order < 0) =>
        LET n == -inp.order
            h == hankel_1(n, inp.arg)
        IN  IF n % 2 = 1
            THEN /\ out.k = "cse"
                 /\ out.prefix = "hank1_neg" \o FmtD(n)
                 /\ StripCSE(out) = Product(<<PyInt(-1), h>>)
            ELSE StripCSE(out) = StripCSE(h)

C4_Witness ==
    /\ pc = "hankel_1" /\ inp.order = -3
    /\ out.k = "cse" /\ out.prefix = "hank1_neg3"
    /\ out.child.children[1] = PyInt(-1)

(***************************************************************************)
(* The value of an expression: an exact rational <<n, d>>, d > 0, reduced; *)
(* Undef where the arithmetic is undefined (a division by zero) or the     *)
(* node has no value here.  env gives the variables' values (env.vars),    *)
(* the two fields of the hank1_01 result (env.h0, env.h1) and the values   *)
(* of bessel_jv by order (env.jv); sqrt and rsqrt have a value where the   *)
(* argument has a rational root.                                           *)
(***************************************************************************)
Undef == <<0, 0>>

Rat(n, d) ==
    IF d = 0 THEN Undef
    ELSE LET g == Gcd(n, d)
             sg == IF d < 0 THEN -1 ELSE 1
         IN  <<sg * (n \div g), sg * (d \div g)>>

RAdd(a, b) ==
    IF a = Undef \/ b = Undef THEN Undef
    ELSE Rat(a[1] * b[2] + b[1] * a[2], a[2] * b[2])

RMul(a, b) ==
    IF a = Undef \/ b = Undef THEN Undef ELSE Rat(a[1] * b[1], a[2] * b[2])

RDiv(a, b) ==
    IF a = Undef \/ b = Undef THEN Undef ELSE Rat(a[1] * b[2], a[2] * b[1])

RPow(a, e) ==
    IF a = Undef THEN Undef
    ELSE IF e >= 0 THEN Rat(IntPow(a[1], e), IntPow(a[2], e))
    ELSE Rat(IntPow(a[2], -e), IntPow(a[1], -e))

\* The root of a perfect square, -1 for any other number.
ISqrt(n) ==
    IF n >= 0 /\ \E r \in 0..n : r * r = n
    THEN CHOOSE r \in 0..n : r * r = n
    ELSE -1

\* The square root of a rational that has a rational root, Undef otherwise.
RSqrt(a) ==
    IF a = Undef \/ ISqrt(a[1]) < 0 \/ ISqrt(a[2]) < 0 THEN Undef
    ELSE <<ISqrt(a[1]), ISqrt(a[2])>>

RECURSIVE Eval(_, _)

RECURSIVE EvalFold(_, _, _, _)
EvalFold(children, env, isSum, acc) ==
    IF children = <<>> THEN acc
    ELSE LET v == Eval(Head(children), env)
         IN  EvalFold(Tail(children), env, isSum,
                      IF isSum THEN RAdd(acc, v) ELSE RMul(acc, v))

Eval(e, env) ==
    CASE e.k = "int" -> <<e.v, 1>>
      [] e.k = "float" -> <<e.n, e.d>>
      [] e.k = "var" ->
            IF e.name \in DOMAIN env.vars THEN <<env.vars[e.name], 1>> ELSE Undef
      [] e.k = "sum" -> EvalFold(e.children, env, TRUE, <<0, 1>>)
      [] e.k = "product" -> EvalFold(e.children, env, FALSE, <<1, 1>>)
      [] e.k = "quotient" -> RDiv(Eval(e.numerator, env), Eval(e.denominator, env))
      [] e.k = "power" ->
            LET x == Eval(e.exponent, env)
            IN  IF x = Undef \/ x[2] # 1 THEN Undef
                ELSE RPow(Eval(e.base, env), x[1])
      [] e.k = "cse" -> Eval(e.child, env)
      [] e.k = "lookup" ->
            IF /\ e.aggregate.k = "cse"
               /\ e.aggregate.child.k = "call"
               /\ e.aggregate.child.function = Variable("hank1_01")
            THEN IF e.name = "order0" THEN <<env.h0, 1>>
                 ELSE IF e.name = "order1" THEN <<env.h1, 1>>
                 ELSE Undef
            ELSE Undef
      [] e.k = "call" ->
            IF /\ e.function = Variable("bessel_jv")
               /\ e.parameters[1].k = "int"
               /\ e.parameters[1].v \in DOMAIN env.jv
            THEN <<env.jv[e.parameters[1].v], 1>>
            ELSE IF e.function = Variable("sqrt") /\ Len(e.parameters) = 1
            THEN RSqrt(Eval(e.parameters[1], env))
            ELSE IF e.function = Variable("rsqrt") /\ Len(e.parameters) = 1
            THEN RDiv(<<1, 1>>, RSqrt(Eval(e.parameters[1], env)))
            ELSE Undef
      [] OTHER -> Undef

(***************************************************************************)
(* Specification SpecPower: PowerRewriter applied to one power node.       *)
(***************************************************************************)
MaxExp == 5
MaxNegExp == 3
MaxRatNum == 3

PowerBases ==
    {Variable("x"),
     Sum(<<Variable("x"), PyInt(1)>>),
     Power(Variable("x"), PyInt(2)),
     Quotient(Variable("x"), PyInt(2))}

PowerExponents ==
    {PyInt(e) : e \in (-MaxNegExp)..MaxExp}
    \cup {Quotient(PyInt(p), PyInt(q)) :
            p \in (-MaxRatNum)..MaxRatNum, q \in {-3, -2, -1, 1, 2, 3}}
    \cup {PyFloat(1, 2), Variable("n")}

\* The sample values of the variable x.
SampleValues == {-2, -1, 0, 2, 3}

InitPower ==
    /\ Idle
    /\ pc = "start"
    /\ inp \in [base : PowerBases, exponent : PowerExponents, x : SampleValues]
    /\ out = None

\* pwr(expr), expr the power node
ApplyPowerRewriter ==
    /\ pc = "start"
    /\ out' = rec(PowerRewriter, Power(inp.base, inp.exponent))
    /\ pc' = "pwr"
    /\ UNCHANGED inp
    /\ IdleUnchanged

NextPower == ApplyPowerRewriter

SpecPower == InitPower /\ [][NextPower]_vars

PowerEnv == [vars |-> ("x" :> inp.x), h0 |-> 0, h1 |-> 0, jv |-> <<>>]

\* C5: for an integer exponent e, the rewritten b**e has the value b**e
\* (1 for e = 0): b multiplied |e| times, reciprocated for e < 0.
C5_PowerValue ==
    (pc = "pwr" /\ inp.exponent.k = "int") =>
        /\ ~IsErr(out)
        /\ Eval(out, PowerEnv) = RPow(Eval(inp.base, PowerEnv), inp.exponent.v)
        /\ inp.exponent.v = 0 => Eval(out, PowerEnv) = <<1, 1>>

C5_Witness ==
    /\ pc = "pwr" /\ inp.exponent = PyInt(-3) /\ inp.base = Variable("x")
    /\ inp.x = 2
    /\ Eval(out, PowerEnv) = <<1, 8>>
    /\ out.k = "product"

\* The exponent is a quotient of two int literals.
IsRational(e) ==
    e.k = "quotient" /\ e.numerator.k = "int" /\ e.denominator.k = "int"

\* p of the exponent p/q after the sign of q has moved to p.
NormP(e) == IF e.denominator.v < 0 THEN -e.numerator.v ELSE e.numerator.v

\* C16: a rational exponent p/1 (or p/-1) gives what the int exponent p
\* (or -p) gives on the same base.
C16_DenominatorOne ==
    (pc = "pwr" /\ IsRational(inp.exponent) /\ Abs(inp.exponent.denominator.v) = 1) =>
        /\ ~IsErr(out)
        /\ out = rec(PowerRewriter, Power(inp.base, PyInt(NormP(inp.exponent))))

\* The exponent shapes no rewrite rule covers, 0/2 and 0/-2 among them.
UnhandledExponent(e) ==
    \/ e = PyInt(0)
    \/ IsRational(e) /\ Abs(e.denominator.v) > 2
    \/ IsRational(e) /\ Abs(e.denominator.v) = 2 /\ e.numerator.v = 0
    \/ e.k \in {"float", "var"}

\* The power node came back as a power node over the rewritten base.
KeptShape ==
    /\ ~IsErr(out)
    /\ out.k = "power"
    /\ out.base = rec(PowerRewriter, inp.base)
    /\ out.exponent = inp.exponent
    /\ Eval(out.base, PowerEnv) = Eval(inp.base, PowerEnv)

\* C18 as stated: no unhandled exponent, 0/2 included, is an error.
C18_UnhandledNeverError ==
    (pc = "pwr" /\ UnhandledExponent(inp.exponent)) => KeptShape

\* C18, amended: an int 0, a rational p/q with |q| > 2, a float or a
\* symbolic exponent keeps the power node, its base rewritten; a rational
\* 0/2 or 0/-2 fails the assertion p != 0.
C18_UnhandledKeptButZeroHalf ==
    (pc = "pwr" /\ UnhandledExponent(inp.exponent)) =>
        IF IsRational(inp.exponent) /\ Abs(inp.exponent.denominator.v) = 2
        THEN out = Err("AssertionError")
        ELSE KeptShape

C18_Witness ==
    /\ pc = "pwr"
    /\ inp.exponent = Quotient(PyInt(2), PyInt(-3))
    /\ inp.base = Power(Variable("x"), PyInt(2))
    /\ out.k = "power" /\ out.base.k = "cse"
    /\ out.base.child = Product(<<Variable("x"), Variable("x")>>)

\* C20: for an exponent p/2 (p/-2 read as -p/2), p # 0, the result has the
\* value of sqrt(base)^p when p > 0 and of rsqrt(base)^(-p) when p < 0; it
\* calls sqrt only, or rsqrt only, on the base, and the int power of that
\* call is expanded: no power node is left but those inside the base.
C20_HalfInteger ==
    (pc = "pwr" /\ IsRational(inp.exponent) /\ Abs(inp.exponent.denominator.v) = 2
        /\ NormP(inp.exponent) # 0) =>
        LET p == NormP(inp.exponent)
            b == Eval(inp.base, PowerEnv)
            used == IF p > 0 THEN "sqrt" ELSE "rsqrt"
            unused == IF p > 0 THEN "rsqrt" ELSE "sqrt"
            root == IF p > 0 THEN RSqrt(b) ELSE RDiv(<<1, 1>>, RSqrt(b))
        IN  /\ ~IsErr(out)
            /\ Eval(out, PowerEnv) = RPow(root, Abs(p))
            /\ CallsOf(used, out) # {}
            /\ CallsOf(unused, out) = {}
            /\ \A c \in CallsOf(used, out) :
                   /\ Len(c.parameters) = 1
                   /\ Eval(c.parameters[1], PowerEnv) = b
            /\ \A n \in Nodes(out) : n.k = "power" => n \in Nodes(inp.base)

C20_Witness ==
    /\ pc = "pwr"
    /\ inp.exponent = Quotient(PyInt(3), PyInt(-2))
    /\ inp.base = Sum(<<Variable("x"), PyInt(1)>>) /\ inp.x = 3
    /\ Eval(out, PowerEnv) = <<1, 8>>
    /\ CallsOf("rsqrt", out) = {Call(Variable("rsqrt"), <<inp.base>>)}


(***************************************************************************)
(* Specification SpecFraction: FractionKiller applied to one quotient.     *)
(***************************************************************************)
MaxFrac == 6

FractionOperands ==
    {PyInt(n) : n \in (-MaxFrac)..MaxFrac}
    \cup {PyFloat(5, 2), Variable("x"), Quotient(PyInt(6), PyInt(3)),
          Sum(<<Variable("x"), Quotient(PyInt(5), PyInt(2))>>)}

InitFraction ==
    /\ Idle
    /\ pc = "start"
    /\ inp \in [numerator : FractionOperands, denominator : FractionOperands]
    /\ out = None

\* fck(expr), expr the quotient node
ApplyFractionKiller ==
    /\ pc = "start"
    /\ out' = rec(FractionKiller, Quotient(inp.numerator, inp.denominator))
    /\ pc' = "fck"
    /\ UNCHANGED inp
    /\ IdleUnchanged

NextFraction == ApplyFractionKiller

SpecFraction == InitFraction /\ [][NextFraction]_vars

\* C7: a quotient n/d of int literals (d # 0) becomes the int n/d when d
\* divides n and the float n/d otherwise, whatever the signs; a quotient
\* with a non-int numerator or denominator stays a quotient.
C7_FractionReduction ==
    pc = "fck" =>
        LET n == inp.numerator
            d == inp.denominator
        IN  IF n.k = "int" /\ d.k = "int" THEN
                d.v # 0 =>
                    IF \E q \in (-MaxFrac)..MaxFrac : q * d.v = n.v
                    THEN out.k = "int" /\ out.v * d.v = n.v
                    ELSE out.k = "float" /\ out.n * d.v = n.v * out.d
            ELSE out.k = "quotient"

C7_Witness ==
    /\ pc = "fck"
    /\ inp.numerator = PyInt(-5) /\ inp.denominator = PyInt(2)
    /\ out = PyFloat(-5, 2)

(***************************************************************************)
(* Specification SpecSum: SumSignGrouper applied to an expression holding  *)
(* one sum, to the same expression with the addends in another order, and  *)
(* then to its own output.                                                 *)
(***************************************************************************)
MaxAddends == 3

Addends ==
    {Variable("a"),
     Product(<<PyInt(-1), Variable("b")>>),
     CommonSubexpression(Product(<<PyInt(-2), Variable("c")>>), NoPrefix),
     Product(<<PyInt(-1), PyInt(-3), Variable("d")>>),
     Sum(<<Product(<<PyInt(-1), Variable("e")>>), Variable("f")>>),
     CommonSubexpression(
         CommonSubexpression(Product(<<PyInt(-1), Variable("g")>>), NoPrefix),
         "outer"),
     Product(<<Variable("h"),
               Sum(<<Product(<<PyInt(-1), Variable("i")>>), Variable("j")>>)>>)}

\* The sequences of 1..MaxAddends addends.
AddendSeqs == UNION {[1..n -> Addends] : n \in 1..MaxAddends}

\* The orders in which the addends of children can be listed.
Reorderings(children) ==
    {[i \in DOMAIN children |-> children[p[i]]] :
        p \in {f \in [DOMAIN children -> DOMAIN children] :
                  \A i, j \in DOMAIN children : i # j => f[i] # f[j]}}

\* The expression that holds the sum: the sum itself, a product with it as
\* a factor, or a common subexpression around it.
Holding(where, children) ==
    CASE where = "sum" -> Sum(children)
      [] where = "product" -> Product(<<Variable("y"), Sum(children)>>)
      [] where = "cse" -> CommonSubexpression(Sum(children), "s")

\* The sum inside the expression Holding built.
HeldSum(where, e) ==
    CASE where = "sum" -> e
      [] where = "product" -> e.children[2]
      [] where = "cse" -> e.child

InitSum ==
    /\ Idle
    /\ pc = "start"
    /\ \E cs \in AddendSeqs : \E other \in Reorderings(cs) :
       \E where \in {"sum", "product", "cse"} :
           inp = [children |-> cs, reordered |-> other, where |-> where]
    /\ out = None

\* ssg(expr), for both orders of the addends
ApplySumSignGrouper ==
    /\ pc = "start"
    /\ out' = [once |-> rec(SumSignGrouper, Holding(inp.where, inp.children)),
               other |-> rec(SumSignGrouper, Holding(inp.where, inp.reordered)),
               twice |-> None]
    /\ pc' = "ssg"
    /\ UNCHANGED inp
    /\ IdleUnchanged

\* ssg(ssg(expr))
ApplySumSignGrouperAgain ==
    /\ pc = "ssg"
    /\ out' = [out EXCEPT !.twice = rec(SumSignGrouper, out.once)]
    /\ pc' = "ssg2"
    /\ UNCHANGED inp
    /\ IdleUnchanged

NextSum == ApplySumSignGrouper \/ ApplySumSignGrouperAgain

SpecSum == InitSum /\ [][NextSum]_vars

Count(seq, x) == Cardinality({i \in DOMAIN seq : seq[i] = x})

SameBag(s, t) ==
    /\ Len(s) = Len(t)
    /\ \A i \in DOMAIN s : Count(s, s[i]) = Count(t, s[i])

\* C8 as stated: the output does not depend on the order of the addends.
C8_OrderIndependent ==
    pc = "ssg" => out.once = out.other

\* C8, amended: the two outputs split at the same place into a leading
\* group without and a trailing group with the odd-negative products, and
\* each group holds the same addends in both (in the order of its input).
C8_GroupsIndependent ==
    pc = "ssg" =>
        LET a == HeldSum(inp.where, out.once).children
            b == HeldSum(inp.where, out.other).children
        IN  /\ Len(a) = Len(inp.children)
            /\ \E f \in 0..Len(a) :
                /\ \A i \in 1..f : ~InSecondGroup(a[i]) /\ ~InSecondGroup(b[i])
                /\ \A i \in (f + 1)..Len(a) : InSecondGroup(a[i]) /\ InSecondGroup(b[i])
                /\ SameBag(SubSeq(a, 1, f), SubSeq(b, 1, f))
                /\ SameBag(SubSeq(a, f + 1, Len(a)), SubSeq(b, f + 1, Len(a)))

C8_Witness ==
    /\ pc = "ssg"
    /\ inp.children = <<Product(<<PyInt(-1), Variable("b")>>), Variable("a"),
                        Product(<<PyInt(-1), PyInt(-3), Variable("d")>>)>>
    /\ inp.reordered = <<Product(<<PyInt(-1), PyInt(-3), Variable("d")>>),
                         Product(<<PyInt(-1), Variable("b")>>), Variable("a")>>
    /\ inp.where = "sum"
    /\ out.once # out.other
    /\ out.once.children[3] = out.other.children[3]

\* C9: the pass applied to its own output returns that output.
C9_Idempotent ==
    pc = "ssg2" => out.twice = out.once

C9_Witness ==
    /\ pc = "ssg2"
    /\ inp.where = "product"
    /\ out.once # Holding(inp.where, inp.children)
    /\ Len(inp.children) = 3
    /\ InSecondGroup(inp.children[1]) /\ InSecondGroup(inp.children[2])
    /\ inp.children[1] # inp.children[2]
    /\ out.twice = out.once

\* The addend is, under at most one common-subexpression wrapper, a product
\* with an odd number of negative int literal factors.
OddNegativeProduct(a) ==
    LET t == StripCSE(a)
    IN  /\ t.k = "product"
        /\ Cardinality({i \in DOMAIN t.children :
                           t.children[i].k = "int" /\ t.children[i].v < 0}) % 2 = 1

\* C17: in every sum of the result, the sums inside the addends of another
\* sum included, each addend that is such a product comes after each addend
\* that is not.
C17_EverySumGrouped ==
    pc = "ssg" =>
        \A s \in Nodes(out.once) :
            s.k = "sum" =>
                \A i, j \in DOMAIN s.children :
                    (OddNegativeProduct(s.children[i])
                        /\ ~OddNegativeProduct(s.children[j])) => j < i


\* after is before rearranged by a one-to-one placement that keeps every
\* addend as it is and keeps the input order of any two addends that are
\* both odd-negative products or both not.
StablyPartitioned(before, after) ==
    /\ Len(after) = Len(before)
    /\ \E f \in [DOMAIN after -> DOMAIN before] :
           /\ \A k, l \in DOMAIN after : k # l => f[k] # f[l]
           /\ \A k \in DOMAIN after : after[k] = before[f[k]]
           /\ \A k, l \in DOMAIN after :
                  (k < l /\ OddNegativeProduct(after[k]) = OddNegativeProduct(after[l]))
                      => f[k] < f[l]

\* C21: the sum comes back as a sum of the same addends, each unchanged and
\* as often as before, the addends of the leading group and those of the
\* trailing group each in their input order.
C21_StablePartition ==
    pc = "ssg" =>
        /\ HeldSum(inp.where, out.once).k = "sum"
        /\ HeldSum(inp.where, out.other).k = "sum"
        /\ SameBag(HeldSum(inp.where, out.once).children, inp.children)
        /\ StablyPartitioned(inp.children, HeldSum(inp.where, out.once).children)
        /\ StablyPartitioned(inp.reordered, HeldSum(inp.where, out.other).children)

C21_Witness ==
    /\ pc = "ssg" /\ inp.where = "cse"
    /\ inp.children = <<Product(<<PyInt(-1), Variable("b")>>), Variable("a"),
                        Product(<<PyInt(-1), Variable("b")>>)>>
    /\ out.once.child.children
           = <<Variable("a"), Product(<<PyInt(-1), Variable("b")>>),
               Product(<<PyInt(-1), Variable("b")>>)>>


(***************************************************************************)
(* Specification SpecVector: VectorComponentRewriter applied to one        *)
(* variable.                                                               *)
(***************************************************************************)
MaxNameLen == 3

NameChars == {"r", "q", "Z", "_", "0", "1", "7", "."}

\* The names of 1..n characters.
RECURSIVE NamesOfLen(_)
NamesOfLen(n) ==
    IF n = 1 THEN NameChars
    ELSE {s \o c : s \in NamesOfLen(n - 1), c \in NameChars}

Names == UNION {NamesOfLen(n) : n \in 1..MaxNameLen}

Whitelists == {{}, {"r"}, {"r", "q_"}}

InitVector ==
    /\ Idle
    /\ pc = "start"
    /\ inp \in [name : Names, name_whitelist : Whitelists]
    /\ out = None

\* vcr(expr), expr the variable
ApplyVectorComponentRewriter ==
    /\ pc = "start"
    /\ out' = rec(VectorComponentRewriter(inp.name_whitelist), Variable(inp.name))
    /\ pc' = "vcr"
    /\ UNCHANGED inp
    /\ IdleUnchanged

NextVector == ApplyVectorComponentRewriter

SpecVector == InitVector /\ [][NextVector]_vars

\* C10: a variable named letters/underscores then digits becomes
\* base[digits] exactly when the base is whitelisted; any other variable
\* (base not listed, or a name of another shape) stays as it is.
C10_NameToIndex ==
    pc = "vcr" =>
        LET name == inp.name
            splits == {i \in 1..(Len(name) - 1) :
                          /\ \A j \in 1..i : CharAt(name, j) \in LetterChars
                          /\ \A j \in (i + 1)..Len(name) : CharAt(name, j) \in DigitChars
                          /\ SubSeq(name, 1, i) \in inp.name_whitelist}
        IN  /\ IF splits # {}
               THEN \E i \in splits :
                        /\ out.k = "subscript"
                        /\ out.aggregate = Variable(SubSeq(name, 1, i))
                        /\ out.index.k = "int"
                        \* the digits are the index in decimal, after zeros
                        /\ \E j \in (i + 1)..Len(name) :
                               /\ ToString(out.index.v) = SubSeq(name, j, Len(name))
                               /\ \A z \in (i + 1)..(j - 1) : CharAt(name, z) = "0"
               ELSE out = Variable(name)
            /\ (name = "r0" /\ inp.name_whitelist = {"r"})
                   => out = Subscript(Variable("r"), PyInt(0))
            /\ name = "q0" => out = Variable("q0")

C10_Witness ==
    /\ pc = "vcr"
    /\ inp.name = "r0" /\ inp.name_whitelist = {"r"}
    /\ out = Subscript(Variable("r"), PyInt(0))

(***************************************************************************)
(* Specification SpecDeriv: the derivative of one Bessel-family call,      *)
(* Subs(Derivative(family(order, t), t, ..., t), t, z), is expanded and    *)
(* its calls are then substituted, as convert_expr does.                   *)
(***************************************************************************)
MaxDOrder == 2
MaxDerivs == 2

\* The sample values of z, hank1_01(z).order0 and hank1_01(z).order1.
SampleZ == {1, 2, 3}

SampleH == {-1, 2, 3}

DerivativeOf(family, order, n) ==
    Substitution(
        Derivative(Call(Variable(family), <<PyInt(order), Variable("t")>>),
                   [i \in 1..n |-> Variable("t")]),
        <<Variable("t")>>, <<Variable("z")>>)

InitDeriv ==
    /\ Idle
    /\ pc = "start"
    /\ inp \in [family : BesselFamilies, order : (-MaxDOrder)..MaxDOrder,
                n : 1..MaxDerivs, z : SampleZ, h0 : SampleH, h1 : SampleH]
    /\ out = None

\* bdr(expr)
ExpandDerivative ==
    /\ pc = "start"
    /\ out' = rec(BesselDerivativeReplacer,
                  DerivativeOf(inp.family, inp.order, inp.n))
    /\ pc' = "bdr"
    /\ UNCHANGED inp
    /\ IdleUnchanged

\* btog(expr); bessel_sub(expr)
SubstituteBessel ==
    /\ pc = "bdr"
    /\ out' = rec(BesselSubstitutor(Gather(<<>>, out)), out)
    /\ pc' = "bessel_sub"
    /\ UNCHANGED inp
    /\ IdleUnchanged

NextDeriv == ExpandDerivative \/ SubstituteBessel

SpecDeriv == InitDeriv /\ [][NextDeriv]_vars

DerivEnv == [vars |-> ("z" :> inp.z), h0 |-> inp.h0, h1 |-> inp.h1, jv |-> <<>>]

\* C6: the first derivative of hankel_1(0, z), expanded and substituted,
\* has the value of -hankel_1(1, z) at every sample point; its two terms
\* are the reflected order -1 and minus the order-1 lookup.
C6_HankelDerivative ==
    (pc = "bessel_sub" /\ inp.family = "hankel_1" /\ inp.order = 0 /\ inp.n = 1) =>
        /\ ~IsErr(out)
        /\ Eval(out, DerivEnv) = Eval(PyNeg(hankel_1(1, Variable("z"))), DerivEnv)
        /\ Eval(out, DerivEnv) = <<-inp.h1, 1>>
        /\ SpecialCalls(out) = {hank1_01(Variable("z"))}
        /\ \E n \in Nodes(out) : n.k = "cse" /\ n.prefix = "hank1_neg1"

C6_Witness ==
    /\ pc = "bessel_sub" /\ inp.family = "hankel_1" /\ inp.order = 0 /\ inp.n = 1
    /\ inp.h1 = 3 /\ inp.z = 2
    /\ out.k = "cse" /\ out.prefix = "d1_hankel_1_0"
    /\ Eval(out, DerivEnv) = <<-3, 1>>

(***************************************************************************)
(* The forward recurrence of hankel_1, under SpecBessel, at sample values   *)
(* of the variables and of the two fields of the hank1_01 result.          *)
(***************************************************************************)
HankelEnvs ==
    {[vars |-> ("x" :> z) @@ ("r0" :> z), h0 |-> a, h1 |-> b, jv |-> <<>>] :
        z \in SampleZ, a \in SampleH, b \in SampleH}

\* The tags of the common subexpressions in e.
TagsIn(e) == {n.prefix : n \in {c \in Nodes(e) : c.k = "cse"}}

\* C19: for order >= 2, hankel_1(order, arg) is the common subexpression
\* tagged hank1_<order> of (2(order-1)/arg) * hankel_1(order-1, arg)
\* - hankel_1(order-2, arg), in structure and in value; each order from 2
\* to order has its own tag on one subexpression, and the only special
\* function called is hank1_01(arg), read through order0 and order1 only.
C19_HankelForward ==
    (pc = "hankel_1" /\ inp.order >= 2) =>
        LET h1 == hankel_1(inp.order - 1, inp.arg)
            h2 == hankel_1(inp.order - 2, inp.arg)
            paired == CommonSubexpression(hank1_01(inp.arg), "hank1_01_result")
        IN  /\ out.k = "cse" /\ out.prefix = "hank1_" \o ToString(inp.order)
            /\ out.child = Sum(<<Product(<<Quotient(PyInt(2 * (inp.order - 1)),
                                                    inp.arg), h1>>),
                                 Product(<<PyInt(-1), h2>>)>>)
            /\ \A env \in HankelEnvs :
                   Eval(out, env) =
                       RAdd(RMul(RDiv(<<2 * (inp.order - 1), 1>>, Eval(inp.arg, env)),
                                 Eval(h1, env)),
                            RMul(<<-1, 1>>, Eval(h2, env)))
            /\ TagsIn(out) = {"hank1_" \o ToString(o) : o \in 2..inp.order}
                                 \cup {"hank1_01_result"}
            /\ \A n, m \in Nodes(out) :
                   (n.k = "cse" /\ m.k = "cse" /\ n.prefix = m.prefix) => n = m
            /\ SpecialCalls(out) = {hank1_01(inp.arg)}
            /\ \A n \in Nodes(out) :
                   /\ hank1_01(inp.arg) \in Kids(n) => n = paired
                   /\ paired \in Kids(n) =>
                          n.k = "lookup" /\ n.name \in {"order0", "order1"}

C19_Witness ==
    /\ pc = "hankel_1" /\ inp.order = 3 /\ inp.arg = Variable("x")
    /\ out.prefix = "hank1_3"
    /\ out.child.children[1].children[1] = Quotient(PyInt(4), Variable("x"))
    /\ out.child.children[1].children[2].prefix = "hank1_2"
    /\ out.child.children[2].children[2]
           = Lookup(CommonSubexpression(hank1_01(Variable("x")), "hank1_01_result"),
                    "order1")

\* The weight and the call of one addend of the expansion: the call alone
\* carries the weight 1, a product (w, call) the weight w.
TermWeight(a) ==
    IF a.k = "call" THEN 1
    ELSE IF a.k = "product" /\ Len(a.children) = 2 /\ a.children[1].k = "int"
    THEN a.children[1].v
    ELSE 0

TermCall(a) == IF a.k = "product" THEN a.children[Len(a.children)] ELSE a

\* The addends of the sum in the expansion CSE(2**(-n) * sum).
ExpansionTerms(e) == e.child.children[2].children

Sign(idx) == IF idx % 2 = 0 THEN 1 ELSE -1

FamilyCall(order) ==
    Call(Variable(inp.family), <<PyInt(order), Variable("z")>>)

\* C15 as stated: for idx = 0..2n the term of weight (-1)^idx * C(n, idx)
\* (those of weight 0 left out) calls the family at order order-n+idx.
C15_TermsStrideOne ==
    pc = "bdr" =>
        /\ out.k = "cse" /\ out.child.k = "product"
        /\ out.child.children[1] = PyFloat(1, IntPow(2, inp.n))
        /\ \A idx \in 0..(2 * inp.n) :
               binomial(inp.n, idx) # 0 =>
                   \E t \in DOMAIN ExpansionTerms(out) :
                       /\ TermCall(ExpansionTerms(out)[t])
                              = FamilyCall(inp.order - inp.n + idx)
                       /\ TermWeight(ExpansionTerms(out)[t])
                              = Sign(idx) * binomial(inp.n, idx)

\* C15, amended: the expansion is 2^(-n) times the sum over idx = 0..n of
\* (-1)^idx * C(n, idx) * family(order-n+2*idx, arg), the terms in this order.
C15_TermsStrideTwo ==
    pc = "bdr" =>
        /\ out.k = "cse" /\ out.child.k = "product"
        /\ Len(out.child.children) = 2
        /\ out.child.children[1] = PyFloat(1, IntPow(2, inp.n))
        /\ out.child.children[2].k = "sum"
        /\ Len(ExpansionTerms(out)) = inp.n + 1
        /\ \A idx \in 0..inp.n :
               /\ TermCall(ExpansionTerms(out)[idx + 1])
                      = FamilyCall(inp.order - inp.n + 2 * idx)
               /\ TermWeight(ExpansionTerms(out)[idx + 1])
                      = Sign(idx) * binomial(inp.n, idx)

C15_Witness ==
    /\ pc = "bdr" /\ inp.family = "bessel_j" /\ inp.order = 1 /\ inp.n = 2
    /\ Len(ExpansionTerms(out)) = 3
    /\ ExpansionTerms(out)[2] = Product(<<PyInt(-2), FamilyCall(1)>>)
    /\ ExpansionTerms(out)[3] = FamilyCall(3)


(***************************************************************************)
(* Specification Spec: to_loopy_insns over a batch of assignments (taken   *)
(* after the conversion from sympy), one step per element of each of its   *)
(* three list traversals: the derivative expansion of every assignment,    *)
(* the gatherer's walk of every assignment, and convert_expr on every      *)
(* assignment.  inp holds the arguments vector_names, complex_dtype and    *)
(* pymbolic_expr_maps.  An exception ends the call: pc = "failed", out the *)
(* exception, and no instruction list is returned.                         *)
(***************************************************************************)
MaxBatch == 2
MaxOrder == 2

BesselJ(order, arg) == Call(Variable("bessel_j"), <<PyInt(order), arg>>)

Hankel1(order, arg) == Call(Variable("hankel_1"), <<PyInt(order), arg>>)

BatchExprs ==
    {BesselJ(o, Variable("x")) : o \in (-MaxOrder)..MaxOrder}
    \cup {Hankel1(-1, Variable("x")),
          Sum(<<BesselJ(1, Variable("y")), Power(Variable("r0"), PyInt(2))>>),
          BesselJ(1, BesselJ(0, Variable("x"))),
          DerivativeOf("bessel_j", 1, 1),
          Product(<<Complex(0, 1, "complex"), Quotient(PyInt(1), PyInt(4)),
                    Variable("pi")>>)}

Batches ==
    UNION {[1..n -> BatchExprs] : n \in 1..MaxBatch}

Configs ==
    [vector_names : {{}, {"r"}},
     complex_dtype : {"None", "complex128"},
     pymbolic_expr_maps : {<<>>, <<MathConstantRewriter>>}]

Init ==
    /\ pc = "bdr"
    /\ \E b \in Batches :
           assignments = [i \in DOMAIN b |->
                             [name |-> "a" \o ToString(i), expr |-> b[i]]]
    /\ pos = 0
    /\ bessel_j_arg_to_top_order = <<>>
    /\ insns = <<>>
    /\ subst_log = {}
    /\ inp \in Configs
    /\ out = None
    /\ applied = <<>>
    /\ compiled = <<>>

\* for m in pymbolic_expr_maps: expr = m(expr)
RECURSIVE ApplyMaps(_, _)
ApplyMaps(maps, expr) ==
    IF maps = <<>> THEN expr
    ELSE ApplyMaps(Tail(maps), rec(Head(maps), expr))

\* The passes of convert_expr with the statements' order swapped for the
\* power and the vector-component rewriters.
PassesPowerFirst(m, cfg) ==
    <<BesselDerivativeReplacer, BesselSubstitutor(m), PowerRewriter,
      VectorComponentRewriter(cfg.vector_names), FractionKiller, SumSignGrouper>>
    \o (IF cfg.complex_dtype # "None"
        THEN <<ComplexConstantSizer(cfg.complex_dtype)>> ELSE <<>>)
    \o cfg.pymbolic_expr_maps

\* The mappers the statements of convert_expr apply, in the statements'
\* order: bdr, bessel_sub, vcr, pwr, fck, ssg, then ccs if it is not None,
\* then the maps of pymbolic_expr_maps.
Passes(m, cfg) ==
    <<BesselDerivativeReplacer, BesselSubstitutor(m),
      VectorComponentRewriter(cfg.vector_names), PowerRewriter, FractionKiller,
      SumSignGrouper>>
    \o (IF cfg.complex_dtype # "None"
        THEN <<ComplexConstantSizer(cfg.complex_dtype)>> ELSE <<>>)
    \o cfg.pymbolic_expr_maps

\* convert_expr(expr), with m the gatherer's map and cfg the arguments
convert_expr(m, cfg, expr) == ApplyMaps(Passes(m, cfg), expr)

\* The bessel_j requests the substitutor makes for the calls of expr, each
\* with the argument it looks up and the top order it reads for it.
BesselJRequests(m, expr) ==
    {[order |-> n.parameters[1].v,
      arg |-> rec(BesselSubstitutor(m), n.parameters[2]),
      top_order |-> Get(m, rec(BesselSubstitutor(m), n.parameters[2]), -1)] :
        n \in CallsOf("bessel_j", rec(BesselDerivativeReplacer, expr))}

\* btog(expr) run once after the loop, on its last assignment only.
GatherStepLastOnly(m, batch, p) ==
    IF p = Len(batch) THEN Gather(m, batch[p].expr) ELSE m

\* btog(expr) for the assignment at position p of the loop
GatherStep(m, batch, p) == Gather(m, batch[p].expr)

\* assignments = [(name, bdr(expr)) for name, expr in assignments]
ExpandNext ==
    /\ pc = "bdr"
    /\ LET e == rec(BesselDerivativeReplacer, assignments[pos + 1].expr)
       IN  IF IsErr(e)
           THEN /\ pc' = "failed"
                /\ out' = e
                /\ UNCHANGED <<assignments, pos>>
           ELSE /\ assignments' = [assignments EXCEPT ![pos + 1].expr = e]
                /\ pos' = IF pos + 1 = Len(assignments) THEN 0 ELSE pos + 1
                /\ pc' = IF pos + 1 = Len(assignments) THEN "gather" ELSE "bdr"
                /\ UNCHANGED out
    /\ UNCHANGED <<bessel_j_arg_to_top_order, insns, subst_log, inp, applied,
                   compiled>>

\* for name, expr in assignments: btog(expr)
GatherNext ==
    /\ pc = "gather"
    /\ bessel_j_arg_to_top_order' =
           GatherStep(bessel_j_arg_to_top_order, assignments, pos + 1)
    /\ pos' = IF pos + 1 = Len(assignments) THEN 0 ELSE pos + 1
    /\ pc' = IF pos + 1 = Len(assignments) THEN "convert" ELSE "gather"
    /\ UNCHANGED <<assignments, insns, subst_log, inp, out, applied, compiled>>

\* [lp.Instruction(..., expression=convert_expr(expr), ...) for name, expr in assignments]
ConvertNext ==
    /\ pc = "convert"
    /\ LET a == assignments[pos + 1]
           e == convert_expr(bessel_j_arg_to_top_order, inp, a.expr)
       IN  IF IsErr(e)
           THEN /\ pc' = "failed"
                /\ out' = e
                /\ insns' = <<>>
                /\ UNCHANGED <<pos, subst_log>>
           ELSE /\ insns' = Append(insns,
                                   [id |-> "None", assignee |-> a.name,
                                    expression |-> e,
                                    temp_var_type |-> "infer_type"])
                /\ subst_log' = subst_log \cup
                       BesselJRequests(bessel_j_arg_to_top_order, a.expr)
                /\ pos' = pos + 1
                /\ pc' = IF pos + 1 = Len(assignments) THEN "done" ELSE "convert"
                /\ UNCHANGED out
    /\ UNCHANGED <<assignments, bessel_j_arg_to_top_order, inp, applied, compiled>>

Next == ExpandNext \/ GatherNext \/ ConvertNext

Spec == Init /\ [][Next]_vars

\* The bessel_j calls of every assignment of the batch.
BatchBesselJCalls ==
    UNION {CallsOf("bessel_j", assignments[i].expr) : i \in DOMAIN assignments}

\* The highest |order| among the calls that have the argument arg.
MaxRequested(calls, arg) ==
    LET orders == {Abs(n.parameters[1].v) :
                      n \in {c \in calls : c.parameters[2] = arg}}
    IN  CHOOSE o \in orders : \A q \in orders : q <= o

\* C3: when the first substitution starts (and from then on) the gatherer
\* has walked every assignment: the map covers every bessel_j call of the
\* batch, so the top order each substitution reads for an argument is the
\* highest |order| the whole batch requests for it.
C3_GatherBeforeSubstitute ==
    (pc \in {"convert", "done"} \/ insns # <<>> \/ subst_log # {}) =>
        LET calls == BatchBesselJCalls
        IN  /\ \A n \in calls :
                   /\ n.parameters[2] \in DOMAIN bessel_j_arg_to_top_order
                   /\ bessel_j_arg_to_top_order[n.parameters[2]]
                          = MaxRequested(calls, n.parameters[2])
            /\ \A r \in subst_log :
                   /\ \E n \in calls : n.parameters[2] = r.arg
                   /\ r.top_order = MaxRequested(calls, r.arg)

\* The first assignment asks for order 1 and a later one for order 2.
C3_Witness ==
    /\ pc = "done"
    /\ Len(assignments) = 2
    /\ assignments[1].expr = BesselJ(1, Variable("x"))
    /\ assignments[2].expr = BesselJ(2, Variable("x"))
    /\ [order |-> 1, arg |-> Variable("x"), top_order |-> 2] \in subst_log
    /\ insns[1].expression.prefix = "bessel_j_1"
    /\ insns[1].expression.child = bessel_j_impl(1, Variable("x"))

\* C14: every bessel_j request the substitutor makes for a call of the
\* assignment about to be converted, a call whose argument holds hankel_1 or
\* bessel_j calls included, finds a maximum recorded for the argument it
\* looks up, and its |order| is at most that maximum.
C14_RequestWithinRecorded ==
    pc = "convert" =>
        \A r \in BesselJRequests(bessel_j_arg_to_top_order,
                                 assignments[pos + 1].expr) :
            /\ r.arg \in DOMAIN bessel_j_arg_to_top_order
            /\ Abs(r.order) <= r.top_order

(***************************************************************************)
(* Specification SpecConvert: to_loopy_insns with convert_expr taken one   *)
(* statement at a time.  out is convert_expr's local expr and applied the  *)
(* classes of the mappers applied to it so far; when convert_expr returns, *)
(* the instruction is appended and applied keeps the finished trace until  *)
(* the next assignment is entered.                                         *)
(***************************************************************************)
ConvertExprs ==
    {Product(<<Complex(0, 1, "complex"), Quotient(PyInt(1), PyInt(4)),
               Variable("pi")>>),
     Sum(<<Complex(1, 2, "complex64"), Power(Variable("r0"), PyInt(2)),
           PyFloat(1, 2)>>),
     BesselJ(1, Variable("x")),
     DerivativeOf("hankel_1", 0, 1)}

ConvertBatches == UNION {[1..n -> ConvertExprs] : n \in 1..MaxBatch}

ConvertConfigs ==
    [vector_names : {{}, {"r"}},
     complex_dtype : {"None", "complex128", "complex64", "float64"},
     pymbolic_expr_maps : {<<>>, <<MathConstantRewriter, SumSignGrouper>>}]

InitConvert ==
    /\ pc = "bdr"
    /\ \E b \in ConvertBatches :
           assignments = [i \in DOMAIN b |->
                             [name |-> "a" \o ToString(i), expr |-> b[i]]]
    /\ pos = 0
    /\ bessel_j_arg_to_top_order = <<>>
    /\ insns = <<>>
    /\ subst_log = {}
    /\ inp \in ConvertConfigs
    /\ out = None
    /\ applied = <<>>
    /\ compiled = <<>>

\* convert_expr(expr) is called for the next assignment
EnterConvert ==
    /\ pc = "convert"
    /\ out' = assignments[pos + 1].expr
    /\ applied' = <<>>
    /\ pc' = "pass"
    /\ UNCHANGED <<assignments, pos, bessel_j_arg_to_top_order, insns, subst_log,
                   inp, compiled>>

\* expr = <mapper>(expr), the next statement of convert_expr
ApplyPass ==
    /\ pc = "pass"
    /\ Len(applied) < Len(Passes(bessel_j_arg_to_top_order, inp))
    /\ LET mapper == Passes(bessel_j_arg_to_top_order, inp)[Len(applied) + 1]
           e == rec(mapper, out)
       IN  /\ out' = e
           /\ IF IsErr(e)
              THEN pc' = "failed" /\ insns' = <<>> /\ UNCHANGED applied
              ELSE /\ applied' = Append(applied, mapper.cls)
                   /\ UNCHANGED <<pc, insns>>
    /\ UNCHANGED <<assignments, pos, bessel_j_arg_to_top_order, subst_log, inp,
                   compiled>>

\* return expr, and the instruction built from it
ReturnExpr ==
    /\ pc = "pass"
    /\ Len(applied) = Len(Passes(bessel_j_arg_to_top_order, inp))
    /\ insns' = Append(insns, [id |-> "None", assignee |-> assignments[pos + 1].name,
                               expression |-> out, temp_var_type |-> "infer_type"])
    /\ pos' = pos + 1
    /\ pc' = IF pos + 1 = Len(assignments) THEN "done" ELSE "convert"
    /\ UNCHANGED <<assignments, bessel_j_arg_to_top_order, subst_log, inp, out,
                   applied, compiled>>

NextConvert ==
    ExpandNext \/ GatherNext \/ EnterConvert \/ ApplyPass \/ ReturnExpr

SpecConvert == InitConvert /\ [][NextConvert]_vars

\* The literals of e in the order of a walk, a complex literal without its
\* type.
RECURSIVE LiteralSeq(_)

RECURSIVE LiteralsOfSeq(_)
LiteralsOfSeq(es) ==
    IF es = <<>> THEN <<>> ELSE LiteralSeq(Head(es)) \o LiteralsOfSeq(Tail(es))

LiteralSeq(e) ==
    IF e.k = "complex" THEN <<[k |-> "complex", re |-> e.re, im |-> e.im]>>
    ELSE IF is_constant(e) THEN <<e>>
    ELSE LiteralsOfSeq(KidSeq(e))

\* The expression convert_expr would return were the ccs statement left out.
WithoutSizer(expr) ==
    ApplyMaps(SubSeq(Passes(bessel_j_arg_to_top_order, inp), 1, 6)
                  \o inp.pymbolic_expr_maps,
              expr)

\* C11: when to_loopy_insns has returned for a batch with a complex type
\* given, every complex literal of every instruction has that type, and the
\* literals are, the complex ones' types aside, those the passes before the
\* re-typing produced, in the same places.
C11_ComplexLiteralsSized ==
    (pc = "done" /\ inp.complex_dtype # "None") =>
        \A i \in DOMAIN insns :
            /\ \A n \in Nodes(insns[i].expression) :
                   n.k = "complex" => n.dtype = inp.complex_dtype
            /\ LiteralSeq(insns[i].expression)
                   = LiteralSeq(WithoutSizer(assignments[i].expr))

C11_Witness ==
    /\ pc = "done" /\ inp.complex_dtype = "complex128"
    /\ Len(insns) = 2
    /\ Complex(0, 1, "complex128") \in Nodes(insns[1].expression)
    /\ PyFloat(1, 4) \in Nodes(insns[1].expression)
    /\ Complex(1, 2, "complex128") \in Nodes(insns[2].expression)
    /\ Complex(1, 2, "complex64") \in Nodes(WithoutSizer(assignments[2].expr))

\* The order the claim gives the passes, by mapper class.
ExpectedOrder ==
    <<"BesselDerivativeReplacer", "BesselSubstitutor", "VectorComponentRewriter",
      "PowerRewriter", "FractionKiller", "SumSignGrouper">>
    \o (IF inp.complex_dtype # "None" THEN <<"ComplexConstantSizer">> ELSE <<>>)
    \o [i \in DOMAIN inp.pymbolic_expr_maps |-> inp.pymbolic_expr_maps[i].cls]

\* C12: at every moment the passes applied to the expression being
\* converted are the first passes of the fixed order (derivative expansion,
\* substitution, vector components, powers, fractions, sign grouping, the
\* complex re-typing if a type is given, the caller's maps as given), and an
\* instruction is built only from an expression that went through them all.
C12_PassOrder ==
    /\ Len(applied) <= Len(ExpectedOrder)
    /\ applied = SubSeq(ExpectedOrder, 1, Len(applied))
    /\ (pos > 0 /\ pc \in {"convert", "done"}) => applied = ExpectedOrder
    /\ pc \in {"convert", "pass", "done"} => Len(insns) = pos

C12_Witness ==
    /\ pc = "pass"
    /\ applied = <<"BesselDerivativeReplacer", "BesselSubstitutor",
                   "VectorComponentRewriter", "PowerRewriter", "FractionKiller",
                   "SumSignGrouper", "ComplexConstantSizer",
                   "MathConstantRewriter">>
    /\ pos = 1 /\ Len(insns) = 1
    /\ Variable("M_PI") \in Nodes(out)

(***************************************************************************)
(* Specification SpecTwice: several calls of to_loopy_insns in a row.      *)
(* inp holds the arguments of the running call, the batch as passed in     *)
(* inp.assignments; compiled holds, for every call that has ended, its     *)
(* arguments and what it returned or raised.  Every call builds its own    *)
(* BesselTopOrderGatherer, whose map starts empty.                         *)
(***************************************************************************)
MaxCalls == 3

TwiceBatches ==
    {<<BesselJ(0, Variable("x"))>>,
     <<BesselJ(2, Variable("x"))>>,
     <<BesselJ(1, Variable("x")), Hankel1(-1, Variable("x"))>>,
     <<Power(Variable("r0"), PyInt(3)), BesselJ(-1, Variable("y"))>>}

TwiceArguments ==
    [assignments : TwiceBatches,
     vector_names : {{}, {"r"}},
     complex_dtype : {"None"},
     pymbolic_expr_maps : {<<>>}]

\* The batch as name-expression pairs.
Named(batch) ==
    [i \in DOMAIN batch |-> [name |-> "a" \o ToString(i), expr |-> batch[i]]]

\* A gatherer that starts from the map of the one before it.
SharedGatherer(previous) == previous

\* btog = BesselTopOrderGatherer(): the map of a new gatherer, whatever the
\* map of the previous call's gatherer was.
NewGatherer(previous) == <<>>

InitTwice ==
    /\ pc = "bdr"
    /\ inp \in TwiceArguments
    /\ assignments = Named(inp.assignments)
    /\ pos = 0
    /\ bessel_j_arg_to_top_order = NewGatherer(<<>>)
    /\ insns = <<>>
    /\ subst_log = {}
    /\ out = None
    /\ applied = <<>>
    /\ compiled = <<>>

\* One call has ended and to_loopy_insns is called again.
CallAgain ==
    /\ pc \in {"done", "failed"}
    /\ Len(compiled) + 1 < MaxCalls
    /\ compiled' = Append(compiled,
                          [arguments |-> inp,
                           returned |-> IF pc = "done" THEN insns ELSE None,
                           raised |-> IF pc = "failed" THEN out ELSE None])
    /\ inp' \in TwiceArguments
    /\ assignments' = Named(inp'.assignments)
    /\ pos' = 0
    /\ bessel_j_arg_to_top_order' = NewGatherer(bessel_j_arg_to_top_order)
    /\ insns' = <<>>
    /\ subst_log' = {}
    /\ out' = None
    /\ pc' = "bdr"
    /\ UNCHANGED applied

NextTwice == ExpandNext \/ GatherNext \/ ConvertNext \/ CallAgain

SpecTwice == InitTwice /\ [][NextTwice]_vars

\* C13: a call that has ended returned (or raised) what every earlier call
\* with the same arguments did, whichever batches were compiled in between:
\* the same assignees, expressions, tags and term order.
C13_SameBatchSameInstructions ==
    pc \in {"done", "failed"} =>
        \A i \in DOMAIN compiled :
            compiled[i].arguments = inp =>
                /\ compiled[i].returned = (IF pc = "done" THEN insns ELSE None)
                /\ compiled[i].raised = (IF pc = "failed" THEN out ELSE None)

\* The batch asking for order 0 is compiled, then one asking for order 2 of
\* the same argument, then the first one again.
C13_Witness ==
    /\ pc = "done" /\ Len(compiled) = 2
    /\ inp.assignments = <<BesselJ(0, Variable("x"))>>
    /\ compiled[1].arguments = inp
    /\ compiled[2].arguments.assignments = <<BesselJ(2, Variable("x"))>>
    /\ compiled[2].returned[1].expression.prefix = "bessel_j_2"
    /\ insns = <<[id |-> "None", assignee |-> "a1",
                  expression |-> CommonSubexpression(
                                     bessel_j_impl(0, Variable("x")), "bessel_j_0"),
                  temp_var_type |-> "infer_type"]>>

(***************************************************************************)
(* Specification SpecDescent: the chain of map_power calls that one power  *)
(* with an int exponent sets off.  out is the power node map_power was     *)
(* called with and pos the number of calls made; a call either hands an    *)
(* expression to self.rec, through which the next power of the chain is    *)
(* reached, or ends the chain (pc = "ended"): it returns, or the           *)
(* expression it hands on, kept in out, holds no further power of the      *)
(* chain, so that self.rec only walks it down to the original base.  The   *)
(* powers inside the original base are mapped by calls of their own and    *)
(* are not part of the chain.                                              *)
(***************************************************************************)
MaxDescentExp == 12
MaxDepth == 8

\* map_power whose negative branch hands on (1/new_base)**exp.
map_power_argument_nonegation(expr) ==
    LET exp == expr.exponent.v
        new_base == wrap_in_cse(expr.base, NoPrefix)
        square == wrap_in_cse(PyMul(new_base, new_base), NoPrefix)
    IN  IF exp > 1 /\ PyMod(exp, 2) = 0 THEN
            [again |-> TRUE,
             expr |-> wrap_in_cse(PyPow(square, PyFloorDiv(exp, 2)), NoPrefix)]
        ELSE IF exp > 1 /\ PyMod(exp, 2) = 1 THEN
            [again |-> TRUE,
             expr |-> PyMul(wrap_in_cse(PyPow(square, PyFloorDiv(exp - 1, 2)),
                                        NoPrefix),
                            new_base)]
        ELSE IF exp = 1 THEN [again |-> FALSE, expr |-> new_base]
        ELSE IF exp < 0 THEN
            [again |-> TRUE, expr |-> Power(PyDiv(PyInt(1), new_base), PyInt(exp))]
        ELSE [again |-> FALSE, expr |-> IdentityMapper(PowerRewriter, expr)]

\* What map_power does with a power of int exponent: the expression it
\* passes to self.rec (again), or the one it returns without a further call
\* for this power.
map_power_argument(expr) ==
    LET exp == expr.exponent.v
        new_base == wrap_in_cse(expr.base, NoPrefix)
        square == wrap_in_cse(PyMul(new_base, new_base), NoPrefix)
    IN  IF exp > 1 /\ PyMod(exp, 2) = 0 THEN
            [again |-> TRUE,
             expr |-> wrap_in_cse(PyPow(square, PyFloorDiv(exp, 2)), NoPrefix)]
        ELSE IF exp > 1 /\ PyMod(exp, 2) = 1 THEN
            [again |-> TRUE,
             expr |-> PyMul(wrap_in_cse(PyPow(square, PyFloorDiv(exp - 1, 2)),
                                        NoPrefix),
                            new_base)]
        ELSE IF exp = 1 THEN [again |-> FALSE, expr |-> new_base]
        ELSE IF exp < 0 THEN
            [again |-> TRUE, expr |-> PyPow(PyDiv(PyInt(1), new_base), -exp)]
        ELSE [again |-> FALSE, expr |-> IdentityMapper(PowerRewriter, expr)]

\* The powers of int exponent that self.rec meets in e outside base.
ChainPowers(e, base) ==
    {n \in Nodes(e) : n.k = "power" /\ n.exponent.k = "int" /\ n \notin Nodes(base)}

InitDescent ==
    /\ Idle
    /\ pc = "map_power"
    /\ inp \in [base : PowerBases, exponent : (-MaxDescentExp)..MaxDescentExp]
    /\ out = Power(inp.base, PyInt(inp.exponent))

\* What a call leaves behind: the next power of the chain where the
\* expression handed to self.rec holds one, the end of the chain otherwise.
Handed(a, base) ==
    LET chain == ChainPowers(a.expr, base)
    IN  IF a.again /\ chain # {}
        THEN [pc |-> "map_power", out |-> CHOOSE n \in chain : TRUE]
        ELSE [pc |-> "ended", out |-> a.expr]

\* One call of map_power, up to its call of self.rec or its return.
Descend ==
    /\ pc = "map_power"
    /\ pos < MaxDepth
    /\ pos' = pos + 1
    /\ \E h \in {Handed(map_power_argument(out), out.base)} :
           /\ out' = h.out
           /\ pc' = h.pc
    /\ UNCHANGED <<assignments, bessel_j_arg_to_top_order, insns, subst_log, inp,
                   applied, compiled>>

NextDescent == Descend

\* The interpreter goes on with a call it has started.
SpecDescent == InitDescent /\ [][NextDescent]_vars /\ WF_vars(Descend)

\* C22: a call on exponent e > 1 goes on with e/2 (e even) or (e-1)/2 (e
\* odd), at least 1 and below e, and ends the chain where that is 1; a
\* call on e < 0 goes on with -e over the reciprocal base, and
\* no later call has a negative exponent; a call on 0 or 1 ends the chain;
\* and every chain of calls comes to its end.
C22_PowerTerminates ==
    /\ [][pc = "map_power" =>
            LET e == out.exponent.v
                half == IF e % 2 = 0 THEN e \div 2 ELSE (e - 1) \div 2
            IN  /\ Cardinality(ChainPowers(map_power_argument(out).expr,
                                           out.base)) <= 1
                /\ e > 1 =>
                       /\ 1 <= half /\ half < e
                       /\ IF half = 1 THEN pc' = "ended"
                          ELSE pc' = "map_power" /\ out'.exponent.v = half
                /\ e < 0 =>
                       IF e = -1 THEN pc' = "ended"
                       ELSE /\ pc' = "map_power" /\ out'.exponent.v = -e
                            /\ out'.base = Quotient(PyInt(1), out.base)
                                   \/ out'.base
                                          = Quotient(PyInt(1),
                                                     CommonSubexpression(out.base,
                                                                         NoPrefix))
                /\ e \in {0, 1} => pc' = "ended"
                /\ pc' = "map_power" => out'.exponent.v > 1]_vars
    /\ <>(pc = "ended")

C22_Witness ==
    /\ pc = "ended" /\ inp.exponent = -11 /\ inp.base = Variable("x")
    /\ pos = 4
    \* the last call of the chain -11, 11, 5, 2 hands on ((1/x)^2)^2 squared
    /\ Eval(out, [vars |-> ("x" :> 2), h0 |-> 0, h1 |-> 0, jv |-> <<>>])
           = <<1, 256>>

====
